---------------------------- MODULE Spec2Model ----------------------------
(***************************************************************************)
(* text2num: recognition of numbers written in words.                      *)
(*                                                                         *)
(* The module models                                                       *)
(*   - the digit buffer (src/src/digit_string.rs, DigitString),            *)
(*   - the English interpreter (src/src/lang/en/mod.rs),                   *)
(*   - the stream scanner (src/src/word_to_digit.rs: WordToDigitParser,    *)
(*     NumTracker, FindNumbers, replace_numbers_in_stream).                *)
(*                                                                         *)
(* Texts are TLA+ strings; byte strings of digits are strings too.         *)
(* Token positions are 0-based as in the code: the token at position p is  *)
(* tokens[p + 1].                                                          *)
(***************************************************************************)
EXTENDS Integers, Sequences, FiniteSets, TLC

VARIABLES
    ds,        \* the digit buffer driven directly (a DigitString)
    call,      \* the last call made on ds: operation, arguments, result
    tokens,    \* the tokens the scanner has consumed so far from its input
    fn,        \* the scanner (FindNumbers) with the history of its run
    pc,        \* control state of the run
    output,    \* the token vector returned by replace_numbers_in_stream
    input,     \* the text handed to an entry point that takes a text
    result     \* what that entry point returned

vars == <<ds, call, tokens, fn, pc, output, input, result>>

-----------------------------------------------------------------------------
(* Bounds of the model *)

MaxArgLen == 2      \* longest digit string handed to put / fput / push
MaxShift == 3       \* largest shift and largest position of put_digit_at
MaxBody == 4        \* longest body the buffer is driven to
MaxZeros == 1       \* most leading zeros the buffer is driven to
MaxPutLen == 3      \* longest digit string of the put-then-shift runs
MaxTokens == 3      \* longest token stream scanned
MaxText == 16       \* longest text handed to an entry point
MaxWords == 4       \* most words pushed to a parser in one run
MaxReplaceText == 14 \* longest text handed to replace_numbers_in_text
MaxGroup == 4       \* most words of a group of magnitude words
MaxCode == 2        \* longest language code looked up

-----------------------------------------------------------------------------
(* Strings *)

Char(s, i) == SubSeq(s, i, i)

StartsWith(s, p) == Len(s) >= Len(p) /\ SubSeq(s, 1, Len(p)) = p

EndsWith(s, p) == Len(s) >= Len(p) /\ SubSeq(s, Len(s) - Len(p) + 1, Len(s)) = p

ContainsChar(s, c) == \E i \in 1..Len(s) : Char(s, i) = c

RECURSIVE Repeat(_, _)
Repeat(c, n) == IF n <= 0 THEN "" ELSE c \o Repeat(c, n - 1)

\* str::trim_end_matches(c)
RECURSIVE TrimEndMatches(_, _)
TrimEndMatches(s, c) ==
    IF Len(s) > 0 /\ Char(s, Len(s)) = c
    THEN TrimEndMatches(SubSeq(s, 1, Len(s) - 1), c)
    ELSE s

\* str::split(c): the pieces between the occurrences of c (empty pieces included)
RECURSIVE SplitFrom(_, _, _, _)
SplitFrom(s, c, i, cur) ==
    IF i > Len(s) THEN <<cur>>
    ELSE IF Char(s, i) = c THEN <<cur>> \o SplitFrom(s, c, i + 1, "")
    ELSE SplitFrom(s, c, i + 1, cur \o Char(s, i))

Split(s, c) == SplitFrom(s, c, 1, "")

Letters ==
    {"a","b","c","d","e","f","g","h","i","j","k","l","m","n","o","p","q","r","s",
     "t","u","v","w","x","y","z",
     "A","B","C","D","E","F","G","H","I","J","K","L","M","N","O","P","Q","R","S",
     "T","U","V","W","X","Y","Z"}

Whitespace == {" "}

\* char::is_alphabetic on the characters the model uses
IsAlphabetic(c) == c \in Letters

\* str::trim on the characters the model uses
RECURSIVE TrimStart(_)
TrimStart(s) ==
    IF Len(s) > 0 /\ Char(s, 1) \in Whitespace THEN TrimStart(SubSeq(s, 2, Len(s))) ELSE s

RECURSIVE TrimEnd(_)
TrimEnd(s) ==
    IF Len(s) > 0 /\ Char(s, Len(s)) \in Whitespace
    THEN TrimEnd(SubSeq(s, 1, Len(s) - 1)) ELSE s

Trim(s) == TrimEnd(TrimStart(s))

\* the element of a singleton set; The({e : x \in {v}}) is e with x bound to
\* the value of v, which is computed once (a !let x = v;! of the code)
The(S) == CHOOSE x \in S : TRUE

DigitValue(c) ==
    CASE c = "0" -> 0 [] c = "1" -> 1 [] c = "2" -> 2 [] c = "3" -> 3 [] c = "4" -> 4
      [] c = "5" -> 5 [] c = "6" -> 6 [] c = "7" -> 7 [] c = "8" -> 8 [] c = "9" -> 9

-----------------------------------------------------------------------------
(* error.rs and lang/mod.rs: results and markers *)

Ok == "Ok"
Overlap == "Overlap"
NaN == "NaN"
Incomplete == "Incomplete"
Frozen == "Frozen"

MarkerNone == [kind |-> "None", suffix |-> ""]
MarkerOrdinal(suffix) == [kind |-> "Ordinal", suffix |-> suffix]

-----------------------------------------------------------------------------
(* digit_string.rs: DigitString.  Every mutating method is an operator     *)
(* from the buffer to [st |-> result, b |-> buffer after the call].        *)

all_zeros(slice) == \A i \in 1..Len(slice) : Char(slice, i) = "0"

DigitString_new ==
    [buffer |-> "", leading_zeroes |-> 0, frozen |-> FALSE, flags |-> 0,
     marker |-> MarkerNone]

\* reset leaves !flags! as it is
reset(b) ==
    [b EXCEPT !.leading_zeroes = 0, !.frozen = FALSE, !.marker = MarkerNone,
              !.buffer = ""]

\* fault injection for C14: freezing leaves the buffer as it is
freeze_forgets(b) == b

\* fault injection for C33: put writes over the positions whatever they hold
put_over_digits(b, digits) ==
    LET positions == Len(digits)
        l == Len(b.buffer)
    IN  IF b.frozen THEN [st |-> Frozen, b |-> b]
        ELSE IF b.buffer = "" /\ digits = "0"
        THEN [st |-> Ok, b |-> [b EXCEPT !.leading_zeroes = @ + 1]]
        ELSE IF all_zeros(digits) THEN [st |-> Overlap, b |-> b]
        ELSE IF l = 0 THEN [st |-> Ok, b |-> [b EXCEPT !.buffer = digits]]
        ELSE IF l < positions THEN [st |-> Overlap, b |-> b]
        ELSE [st |-> Ok,
              b |-> [b EXCEPT !.buffer = SubSeq(b.buffer, 1, l - positions) \o digits]]

freeze(b) == [b EXCEPT !.frozen = TRUE]

put(b, digits) ==
    LET positions == Len(digits)
        l == Len(b.buffer)
    IN  IF b.frozen THEN [st |-> Frozen, b |-> b]
        ELSE IF b.buffer = "" /\ digits = "0"
        THEN [st |-> Ok, b |-> [b EXCEPT !.leading_zeroes = @ + 1]]
        ELSE IF all_zeros(digits) THEN [st |-> Overlap, b |-> b]
        ELSE IF l = 0 THEN [st |-> Ok, b |-> [b EXCEPT !.buffer = digits]]
        ELSE IF l < positions THEN [st |-> Overlap, b |-> b]
        ELSE IF all_zeros(SubSeq(b.buffer, l - positions + 1, l))
        THEN [st |-> Ok,
              b |-> [b EXCEPT !.buffer = SubSeq(b.buffer, 1, l - positions) \o digits]]
        ELSE [st |-> Overlap, b |-> b]

\* fault injection for C1: beyond the body, the padding goes before the digit
put_digit_at_padding_first(b, digit, position) ==
    LET len == Len(b.buffer)
    IN  IF b.frozen THEN [st |-> Frozen, b |-> b]
        ELSE IF digit = "0" THEN [st |-> Overlap, b |-> b]
        ELSE IF position >= len
        THEN [st |-> Ok,
              b |-> [b EXCEPT !.buffer = Repeat("0", position - len) \o digit \o b.buffer]]
        ELSE IF Char(b.buffer, len - position) = "0"
        THEN [st |-> Ok,
              b |-> [b EXCEPT !.buffer = SubSeq(b.buffer, 1, len - 1 - position) \o digit
                                         \o SubSeq(b.buffer, len - position + 1, len)]]
        ELSE [st |-> Overlap, b |-> b]

put_digit_at(b, digit, position) ==
    LET len == Len(b.buffer)
    IN  IF b.frozen THEN [st |-> Frozen, b |-> b]
        ELSE IF digit = "0" THEN [st |-> Overlap, b |-> b]
        ELSE IF position >= len
        THEN [st |-> Ok,
              b |-> [b EXCEPT !.buffer = digit \o Repeat("0", position - len) \o b.buffer]]
        ELSE IF Char(b.buffer, len - position) = "0"
        THEN [st |-> Ok,
              b |-> [b EXCEPT !.buffer = SubSeq(b.buffer, 1, len - 1 - position) \o digit
                                         \o SubSeq(b.buffer, len - position + 1, len)]]
        ELSE [st |-> Overlap, b |-> b]

\* push does not look at !frozen!
push(b, digits) == [st |-> Ok, b |-> [b EXCEPT !.buffer = @ \o digits]]

fput(b, digits) ==
    LET positions == Len(digits)
        l == Len(b.buffer)
    IN  IF b.frozen THEN [st |-> Frozen, b |-> b]
        ELSE IF l = 0 THEN [st |-> Ok, b |-> [b EXCEPT !.buffer = digits]]
        ELSE IF l < positions THEN [st |-> Ok, b |-> [b EXCEPT !.buffer = digits]]
        ELSE [st |-> Ok,
              b |-> [b EXCEPT !.buffer = SubSeq(b.buffer, 1, l - positions) \o digits]]

peek(b, positions) ==
    LET length == Len(b.buffer)
        range == IF length < positions THEN length ELSE positions
    IN  SubSeq(b.buffer, length - range + 1, length)

is_empty(b) == b.buffer = "" /\ b.leading_zeroes = 0

len(b) == Len(b.buffer) + b.leading_zeroes

\* is_free looking at the last digit only
is_free_last_digit(b, positions) == is_empty(b) \/ all_zeros(peek(b, 1))

is_free(b, positions) == is_empty(b) \/ all_zeros(peek(b, positions))

\* is_range_free looking below the range instead of at it
is_range_free_below(b, start_position, end_position) ==
    start_position >= Len(b.buffer)
    \/ all_zeros(SubSeq(b.buffer, Len(b.buffer) - start_position + 1, Len(b.buffer)))

is_range_free(b, start_position, end_position) ==
    LET l == Len(b.buffer)
        left_bound == IF end_position >= l THEN 0 ELSE l - end_position - 1
    IN  IF start_position >= l THEN TRUE
        ELSE all_zeros(SubSeq(b.buffer, left_bound + 1, l - start_position))

\* is_position_free: [panic, free]; the call panics on the empty body, where
\* `self.buffer.len() - 1` overflows (a panic where overflow is checked) or
\* wraps to usize::MAX, and then the index max_pos - position is out of bounds
is_position_free(b, position) ==
    IF Len(b.buffer) = 0 THEN [panic |-> TRUE, free |-> FALSE]
    ELSE LET max_pos == Len(b.buffer) - 1
         IN  [panic |-> FALSE,
              free |-> position > max_pos \/ Char(b.buffer, max_pos - position + 1) = "0"]

\* the number of '0' at the front of a slice (iter().take_while(..).count())
RECURSIVE take_while_zero(_)
take_while_zero(slice) ==
    IF Len(slice) > 0 /\ Char(slice, 1) = "0"
    THEN 1 + take_while_zero(SubSeq(slice, 2, Len(slice)))
    ELSE 0

\* fault injection for C3: a body as long as the shift is not simply extended
shift_strictly_shorter(b, positions) ==
    IF b.frozen THEN [st |-> Frozen, b |-> b]
    ELSE IF positions = 0 THEN [st |-> Ok, b |-> b]
    ELSE
      LET buf0 == IF b.buffer = "" THEN "1" ELSE b.buffer
          l == Len(buf0)
          tail == SubSeq(buf0, l - positions + 1, l)
          pz0 == take_while_zero(tail)
          buf1 == IF pz0 = positions THEN SubSeq(buf0, 1, l - 1) \o "1" ELSE buf0
          padding_zeroes == IF pz0 = positions THEN pz0 - 1 ELSE pz0
          span == 2 * positions - padding_zeroes
          left == SubSeq(buf1, 1, l - positions)
          right == SubSeq(buf1, l - positions + 1, l)
      IN  IF l < positions
          THEN [st |-> Ok, b |-> [b EXCEPT !.buffer = buf0 \o Repeat("0", positions)]]
          ELSE IF l >= span /\ all_zeros(SubSeq(buf1, l - span + 1, l - positions))
          THEN [st |-> Ok,
                b |-> [b EXCEPT !.buffer =
                         SubSeq(left, 1, l - span)
                         \o SubSeq(right, padding_zeroes + 1, positions)
                         \o SubSeq(right, 1, padding_zeroes)
                         \o SubSeq(left, l - span + 1, l - positions)]]
          ELSE [st |-> Overlap, b |-> [b EXCEPT !.buffer = buf1]]

shift(b, positions) ==
    IF b.frozen THEN [st |-> Frozen, b |-> b]
    ELSE IF positions = 0 THEN [st |-> Ok, b |-> b]
    ELSE
      LET buf0 == IF b.buffer = "" THEN "1" ELSE b.buffer
          l == Len(buf0)
          tail == SubSeq(buf0, l - positions + 1, l)
          pz0 == take_while_zero(tail)
          \* an all-zero tail gets its last digit set to '1' before the checks
          buf1 == IF pz0 = positions THEN SubSeq(buf0, 1, l - 1) \o "1" ELSE buf0
          padding_zeroes == IF pz0 = positions THEN pz0 - 1 ELSE pz0
          span == 2 * positions - padding_zeroes
          left == SubSeq(buf1, 1, l - positions)
          right == SubSeq(buf1, l - positions + 1, l)
      IN  IF l <= positions
          THEN [st |-> Ok, b |-> [b EXCEPT !.buffer = buf0 \o Repeat("0", positions)]]
          ELSE IF l >= span /\ all_zeros(SubSeq(buf1, l - span + 1, l - positions))
          THEN [st |-> Ok,
                b |-> [b EXCEPT !.buffer =
                         SubSeq(left, 1, l - span)
                         \o SubSeq(right, padding_zeroes + 1, positions)
                         \o SubSeq(right, 1, padding_zeroes)
                         \o SubSeq(left, l - span + 1, l - positions)]]
          ELSE [st |-> Overlap, b |-> [b EXCEPT !.buffer = buf1]]

\* fault injection for C20: the leading zeros are not rendered
to_string_without_zeros(b) == b.buffer

to_string(b) == Repeat("0", b.leading_zeroes) \o b.buffer

is_ordinal(b) == b.marker.kind = "Ordinal"


-----------------------------------------------------------------------------
(* Numeric values.  A value (f64 in the code) is kept as the canonical     *)
(* decimal text of the number: no redundant leading zero in the integer    *)
(* part, no trailing zero in the fraction, no fraction when it is zero.    *)
(* str::parse::<f64>() fails on the empty string and unwrap() then panics: *)
(* the value is PanicValue.                                                *)

PanicValue == "panic"

RECURSIVE StripLeadingZeros(_)
StripLeadingZeros(s) ==
    IF Len(s) > 1 /\ Char(s, 1) = "0" THEN StripLeadingZeros(SubSeq(s, 2, Len(s))) ELSE s

IndexOfDot(s) ==
    IF ContainsChar(s, ".")
    THEN CHOOSE i \in 1..Len(s) : Char(s, i) = "." /\ \A j \in 1..(i - 1) : Char(s, j) # "."
    ELSE 0

parse_f64(repr) ==
    LET dot == IndexOfDot(repr)
        ip == IF dot = 0 THEN repr ELSE SubSeq(repr, 1, dot - 1)
        fp == IF dot = 0 THEN "" ELSE TrimEndMatches(SubSeq(repr, dot + 1, Len(repr)), "0")
        ipn == IF ip = "" THEN "0" ELSE StripLeadingZeros(ip)
    IN  IF repr = "" \/ repr = "." THEN PanicValue
        ELSE IF fp = "" THEN ipn ELSE ipn \o "." \o fp

RECURSIVE ToNat(_)
ToNat(s) == IF s = "" THEN 0 ELSE 10 * ToNat(SubSeq(s, 1, Len(s) - 1)) + DigitValue(Char(s, Len(s)))

\* value < t for a value of the model and a natural number t: the fraction of
\* a value is in [0, 1), so only the integer part decides.
ValueLt(value, t) ==
    LET dot == IndexOfDot(value)
        ip == IF dot = 0 THEN value ELSE SubSeq(value, 1, dot - 1)
    IN  value # PanicValue /\ Len(ip) <= 9 /\ ToNat(ip) < t

-----------------------------------------------------------------------------
(* lang/en/mod.rs: the English interpreter *)

None == <<>>
Some(x) == <<x>>

en_INSIGNIFICANT ==
    {"and", "ha", "ah", "hu", "hum", "minus", "more", "ok", "plus", "so", "that's",
     "then", "uh", "well", "yeah", "yes", "is"}

en_lemmatize(word) ==
    IF EndsWith(word, "s") /\ word # "seconds" THEN TrimEndMatches(word, "s") ELSE word

en_get_morph_marker(word) ==
    IF EndsWith(word, "th") THEN MarkerOrdinal("th")
    ELSE IF EndsWith(word, "ths") THEN MarkerOrdinal("ths")
    ELSE IF word = "first" THEN MarkerOrdinal("st")
    ELSE IF word = "second" THEN MarkerOrdinal("nd")
    ELSE IF word = "third" THEN MarkerOrdinal("rd")
    ELSE IF word = "thirds" THEN MarkerOrdinal("rds")
    ELSE MarkerNone

\* the match of English::apply on the lemma: the first arm whose pattern and
\* guard hold is taken, !_ => Err(NaN)! otherwise
en_apply_lemma(lemma, b) ==
    LET not10 == peek(b, 2) # "10"
        nan == [st |-> NaN, b |-> b]
    IN  CASE lemma \in {"zero", "o", "nought"} -> put(b, "0")
          [] lemma \in {"one", "first", "oneth"} /\ not10 -> put(b, "1")
          [] lemma \in {"two", "second"} /\ not10 -> put(b, "2")
          [] lemma \in {"three", "third"} /\ not10 -> put(b, "3")
          [] lemma \in {"four", "fourth"} /\ not10 -> put(b, "4")
          [] lemma \in {"five", "fifth"} /\ not10 -> put(b, "5")
          [] lemma \in {"six", "sixth"} /\ not10 -> put(b, "6")
          [] lemma \in {"seven", "seventh"} /\ not10 -> put(b, "7")
          [] lemma \in {"eight", "eighth"} /\ not10 -> put(b, "8")
          [] lemma \in {"nine", "ninth"} /\ not10 -> put(b, "9")
          [] lemma \in {"ten", "tenth"} -> put(b, "10")
          [] lemma \in {"eleven", "eleventh"} -> put(b, "11")
          [] lemma \in {"twelve", "twelfth"} -> put(b, "12")
          [] lemma \in {"thirteen", "thirteenth"} -> put(b, "13")
          [] lemma \in {"fourteen", "fourteenth"} -> put(b, "14")
          [] lemma \in {"fifteen", "fifteenth"} -> put(b, "15")
          [] lemma \in {"sixteen", "sixteenth"} -> put(b, "16")
          [] lemma \in {"seventeen", "seventeenth"} -> put(b, "17")
          [] lemma \in {"eighteen", "eighteenth"} -> put(b, "18")
          [] lemma \in {"nineteen", "nineteenth"} -> put(b, "19")
          [] lemma \in {"twenty", "twentieth"} -> put(b, "20")
          [] lemma \in {"thirty", "thirtieth"} -> put(b, "30")
          [] lemma \in {"fourty", "forty", "fortieth", "fourtieth"} -> put(b, "40")
          [] lemma \in {"fifty", "fiftieth"} -> put(b, "50")
          [] lemma \in {"sixty", "sixteeth"} -> put(b, "60")
          [] lemma \in {"seventy", "seventieth"} -> put(b, "70")
          [] lemma \in {"eighty", "eightieth"} -> put(b, "80")
          [] lemma \in {"ninety", "ninetieth"} -> put(b, "90")
          [] lemma \in {"hundred", "hundredth"} ->
                IF Len(peek(b, 2)) = 1 \/ peek(b, 2) # "00" THEN shift(b, 2)
                ELSE [st |-> Overlap, b |-> b]
          [] lemma \in {"thousand", "thousandth"} /\ is_range_free(b, 3, 5) -> shift(b, 3)
          [] lemma \in {"million", "millionth"} /\ is_range_free(b, 6, 8) -> shift(b, 6)
          [] lemma \in {"billion", "billionth"} -> shift(b, 9)
          [] lemma = "and" /\ len(b) >= 2 -> [st |-> Incomplete, b |-> b]
          [] OTHER -> nan

\* English::apply for a word without '-'
en_apply_word(num_func, b) ==
    LET lemma == en_lemmatize(num_func)
    IN  The({IF r.st = Ok
                /\ (EndsWith(lemma, "th") \/ num_func = "first" \/ num_func = "second"
                    \/ lemma = "third")
             THEN [st |-> Ok,
                   b |-> freeze([r.b EXCEPT !.marker = en_get_morph_marker(num_func)])]
             ELSE r
             : r \in {en_apply_lemma(lemma, b)}})

\* LangInterpreter::exec_group (lang/mod.rs) on the parts of an English
\* compound: the parts hold no '-', so each goes through en_apply_word.
\* acc = [st, b, incomplete]
RECURSIVE en_exec_parts(_, _, _)
en_exec_parts(group, b, incomplete) ==
    IF group = <<>>
    THEN (IF incomplete THEN [st |-> Incomplete, b |-> b] ELSE [st |-> Ok, b |-> b])
    ELSE The({IF r.st = Incomplete THEN en_exec_parts(Tail(group), r.b, TRUE)
              ELSE IF r.st = Ok THEN en_exec_parts(Tail(group), r.b, FALSE)
              ELSE [st |-> r.st, b |-> r.b]
              : r \in {en_apply_word(Head(group), b)}})

\* English::apply interpreting the parts of a compound on the caller's buffer
en_apply_in_place(num_func, b) ==
    IF ContainsChar(num_func, "-")
    THEN en_exec_parts(Split(num_func, "-"), b, FALSE)
    ELSE en_apply_word(num_func, b)

\* fault injection for C34: a compound is merged by put alone
en_apply_put_alone(num_func, b) ==
    IF ContainsChar(num_func, "-")
    THEN The({IF g.st # Ok THEN [st |-> g.st, b |-> b]
              ELSE The({IF p.st # Ok THEN p
                        ELSE IF g.b.marker.kind = "Ordinal"
                        THEN [st |-> Ok, b |-> freeze([p.b EXCEPT !.marker = g.b.marker])]
                        ELSE p
                        : p \in {put(b, g.b.buffer)}})
              : g \in {en_exec_parts(Split(num_func, "-"), DigitString_new, FALSE)}})
    ELSE en_apply_word(num_func, b)

en_apply(num_func, b) ==
    IF ContainsChar(num_func, "-")
    THEN The({IF g.st # Ok THEN [st |-> g.st, b |-> b]
              ELSE IF len(g.b) > 3 /\ len(g.b) <= 6 /\ ~is_range_free(b, 3, 5)
              THEN [st |-> Overlap, b |-> b]
              ELSE The({IF p.st # Ok THEN p
                        ELSE IF g.b.marker.kind = "Ordinal"
                        THEN [st |-> Ok, b |-> freeze([p.b EXCEPT !.marker = g.b.marker])]
                        ELSE p
                        : p \in {put(b, g.b.buffer)}})
              : g \in {en_exec_parts(Split(num_func, "-"), DigitString_new, FALSE)}})
    ELSE en_apply_word(num_func, b)

en_apply_decimal(decimal_func, b) ==
    CASE decimal_func \in {"zero", "o", "nought"} -> push(b, "0")
      [] decimal_func = "one" -> push(b, "1")
      [] decimal_func = "two" -> push(b, "2")
      [] decimal_func = "three" -> push(b, "3")
      [] decimal_func = "four" -> push(b, "4")
      [] decimal_func = "five" -> push(b, "5")
      [] decimal_func = "six" -> push(b, "6")
      [] decimal_func = "seven" -> push(b, "7")
      [] decimal_func = "eight" -> push(b, "8")
      [] decimal_func = "nine" -> push(b, "9")
      [] OTHER -> [st |-> NaN, b |-> b]

en_check_decimal_separator(word) == IF word = "point" THEN Some(".") ELSE None

en_format_and_value(b) ==
    LET repr == to_string(b)
        val == parse_f64(repr)
    IN  IF b.marker.kind = "Ordinal"
        THEN [text |-> repr \o b.marker.suffix, value |-> val]
        ELSE [text |-> repr, value |-> val]

en_format_decimal_and_value(int, dec, sep) ==
    LET frepr == to_string(int) \o "." \o to_string(dec)
    IN  [text |-> frepr, value |-> parse_f64(frepr)]

en_is_linking(word) == word \in en_INSIGNIFICANT

-----------------------------------------------------------------------------
(* lang/pt/mod.rs: the Portuguese interpreter.  Strings are kept in ASCII: *)
(* an accented letter of the code is written as the letter followed by its  *)
(* accent (' acute, ! grave, ^ circumflex, ~ tilde, : diaeresis), "vi'rgula" *)
(* being the code's word for the decimal comma and "tre^s" its word for three. *)

\* str::trim_end_matches(pat) for a string pattern
RECURSIVE TrimEndMatchesStr(_, _)
TrimEndMatchesStr(s, pat) ==
    IF pat # "" /\ EndsWith(s, pat)
    THEN TrimEndMatchesStr(SubSeq(s, 1, Len(s) - Len(pat)), pat)
    ELSE s

\* bitflags Restriction: CONJUNCTION = 1, ONLY_MULTIPLIERS = 2
pt_CONJUNCTION == 1
pt_ONLY_MULTIPLIERS == 2

\* Restriction::from_bits_truncate(flags).contains(flag), flag a single bit
pt_contains(flags, flag) == (flags \div flag) % 2 = 1

pt_INSIGNIFICANT ==
    {"eh", "enta~o", "bem", "isso", "outra vez", "e", "uh", "ha", "ah", "hu", "um",
     "menos", "ok", "sim", "mais", "ai' esta'", "digo", "ou", "seja", "aquele", "e'",
     "aquilo", "em", "fim", "mais tarde", "mas", "ei", "agora", "hum", "na~o", "com",
     "sa~o", "novamente"}

pt_lemmatize(word) ==
    IF EndsWith(word, "a") THEN TrimEndMatches(word, "a")
    ELSE IF EndsWith(word, "as") /\ word # "duas" THEN TrimEndMatchesStr(word, "as")
    ELSE IF EndsWith(word, "o") /\ word # "zero" THEN TrimEndMatches(word, "o")
    ELSE IF EndsWith(word, "os") THEN TrimEndMatchesStr(word, "os")
    ELSE word

\* the suffixes, superscript "a", "o", "as" and "os" in the code, are written
\* "^a", "^o", "^as" and "^os"
pt_get_morph_marker(word) ==
    LET lemma == pt_lemmatize(word)
        prob_marker ==
            IF EndsWith(word, "a") THEN MarkerOrdinal("^a")
            ELSE IF EndsWith(word, "as") THEN MarkerOrdinal("^as")
            ELSE IF EndsWith(word, "o") THEN MarkerOrdinal("^o")
            ELSE IF EndsWith(word, "os") THEN MarkerOrdinal("^os")
            ELSE MarkerNone
    IN  IF prob_marker = MarkerNone THEN MarkerNone
        ELSE IF lemma \in {"primeir", "segund", "terceir", "quart", "quint", "sext",
                           "se'tim", "oitav", "non"}
        THEN prob_marker
        ELSE IF EndsWith(lemma, "im") THEN prob_marker
        ELSE MarkerNone

\* the match of Portuguese::apply on the lemma
pt_apply_lemma(lemma, b, only_multipliers, smaller_blocked) ==
    LET not10 == peek(b, 2) # "10"
        free == ~smaller_blocked
        mult == ~only_multipliers
    IN  CASE lemma = "zero" -> put(b, "0")
          [] lemma = "um" /\ not10 /\ free -> put(b, "1")
          [] lemma = "primeir" -> put(b, "1")
          [] lemma \in {"dois", "duas"} /\ not10 /\ free -> put(b, "2")
          [] lemma = "segund" -> put(b, "2")
          [] lemma \in {"tre^s", "tres"} /\ not10 /\ free -> put(b, "3")
          [] lemma = "terceir" -> put(b, "3")
          [] lemma = "quatr" /\ not10 /\ free -> put(b, "4")
          [] lemma = "quart" -> put(b, "4")
          [] lemma = "cinc" /\ not10 /\ free -> put(b, "5")
          [] lemma = "quint" -> put(b, "5")
          [] lemma = "seis" /\ not10 /\ free -> put(b, "6")
          [] lemma = "sext" -> put(b, "6")
          [] lemma = "sete" /\ not10 /\ free -> put(b, "7")
          [] lemma = "se'tim" -> put(b, "7")
          [] lemma = "oit" /\ not10 /\ free -> put(b, "8")
          [] lemma = "oitav" -> put(b, "8")
          [] lemma = "nove" /\ not10 /\ free -> put(b, "9")
          [] lemma = "non" /\ free -> put(b, "9")
          [] lemma \in {"dez", "de'cim"} /\ free -> put(b, "10")
          [] lemma = "onze" /\ free -> put(b, "11")
          [] lemma = "doze" /\ free -> put(b, "12")
          [] lemma = "treze" /\ free -> put(b, "13")
          [] lemma \in {"catorze", "quatorze"} /\ free -> put(b, "14")
          [] lemma = "quinze" /\ free -> put(b, "15")
          [] lemma \in {"dezasseis", "dezesseis"} /\ free -> put(b, "16")
          [] lemma \in {"dezassete", "dezessete"} /\ free -> put(b, "17")
          [] lemma = "dezoit" /\ free -> put(b, "18")
          [] lemma \in {"dezanove", "dezenove"} /\ free -> put(b, "19")
          [] lemma \in {"vinte", "vige'sim"} /\ free -> put(b, "20")
          [] lemma \in {"trint", "trige'sim"} /\ free -> put(b, "30")
          [] lemma \in {"quarent", "quadrage'sim"} /\ free -> put(b, "40")
          [] lemma \in {"cinquent", "cinqu:ent", "quinquage'sim", "qu:inquage'sim"} /\ free ->
                put(b, "50")
          [] lemma \in {"sessent", "sexage'sim"} /\ free -> put(b, "60")
          [] lemma \in {"setent", "septuage'sim", "setuage'sim"} /\ free -> put(b, "70")
          [] lemma \in {"oitent", "octoge'sim"} /\ free -> put(b, "80")
          [] lemma \in {"novent", "nonage'sim"} /\ free -> put(b, "90")
          [] lemma = "cem" /\ mult -> put(b, "100")
          [] lemma \in {"cent", "cente'sim"} /\ mult -> put(b, "100")
          [] lemma \in {"duzent", "ducente'sim"} /\ mult -> put(b, "200")
          [] lemma \in {"trezent", "trecente'sim"} /\ mult -> put(b, "300")
          [] lemma \in {"quatrocent", "quadringente'sim"} /\ mult -> put(b, "400")
          [] lemma \in {"quinhent", "quingente'sim", "qu:ingente'sim"} /\ mult -> put(b, "500")
          [] lemma \in {"seiscent", "sexcente'sim", "seiscente'sim"} /\ mult -> put(b, "600")
          [] lemma \in {"setecent", "septingente'sim"} /\ mult -> put(b, "700")
          [] lemma \in {"oitocent", "octingente'sim"} /\ mult -> put(b, "800")
          [] lemma \in {"novecent", "noningente'sim", "nongente'sim"} /\ mult -> put(b, "900")
          [] lemma \in {"mil", "mile'sim"} /\ is_range_free(b, 3, 5)
             /\ (only_multipliers \/ peek(b, 3) # "100") ->
                IF peek(b, 2) = "1" THEN [st |-> Overlap, b |-> b] ELSE shift(b, 3)
          [] lemma \in {"milha~", "milho~es", "milione'sim"} /\ is_range_free(b, 6, 8) ->
                shift(b, 6)
          [] lemma \in {"bilha~", "bilia~", "bilho~es", "bilio~es", "bilione'sim"} -> shift(b, 9)
          [] lemma = "e" /\ len(b) >= 2 /\ b.marker = MarkerNone /\ mult ->
                [st |-> Incomplete, b |-> b]
          [] OTHER -> [st |-> NaN, b |-> b]

pt_apply(num_func, b) ==
    LET num_marker == pt_get_morph_marker(num_func)
        only_multipliers == pt_contains(b.flags, pt_ONLY_MULTIPLIERS)
        smaller_blocked ==
            only_multipliers
            \/ (~pt_contains(b.flags, pt_CONJUNCTION) /\ num_marker = MarkerNone
                /\ ~is_free(b, 4))
        lemma == pt_lemmatize(num_func)
        next_restrictions ==
            IF lemma = "cem" /\ ~only_multipliers THEN pt_ONLY_MULTIPLIERS ELSE 0
    IN  IF ~is_empty(b) /\ num_marker # b.marker THEN [st |-> Overlap, b |-> b]
        ELSE The({IF r.st = Ok
                  THEN [st |-> Ok,
                        b |-> [r.b EXCEPT !.marker = num_marker,
                                          !.flags = next_restrictions]]
                  ELSE IF r.st = Incomplete
                  THEN [st |-> Incomplete, b |-> [r.b EXCEPT !.flags = pt_CONJUNCTION]]
                  ELSE [st |-> r.st, b |-> [r.b EXCEPT !.flags = 0]]
                  : r \in {pt_apply_lemma(lemma, b, only_multipliers, smaller_blocked)}})

pt_apply_decimal(decimal_func, b) == pt_apply(decimal_func, b)

pt_check_decimal_separator(word) == IF word = "vi'rgula" THEN Some(",") ELSE None

pt_format_and_value(b) ==
    LET repr == to_string(b)
        val == parse_f64(repr)
    IN  IF b.marker.kind = "Ordinal"
        THEN [text |-> repr \o b.marker.suffix, value |-> val]
        ELSE [text |-> repr, value |-> val]

\* fault injection for C19: the decimal point whatever the separator
pt_format_decimal_with_point(int, dec, sep) ==
    LET sint == to_string(int)
        sdec == to_string(dec)
    IN  [text |-> sint \o "." \o sdec, value |-> parse_f64(sint \o "." \o sdec)]

pt_format_decimal_and_value(int, dec, sep) ==
    LET sint == to_string(int)
        sdec == to_string(dec)
    IN  [text |-> sint \o sep \o sdec, value |-> parse_f64(sint \o "." \o sdec)]

pt_is_linking(word) == word \in pt_INSIGNIFICANT

-----------------------------------------------------------------------------
(* lang/fr/mod.rs: the French interpreter (accents written as in the        *)
(* Portuguese one)                                                          *)

\* the order of byte strings (<[u8] as PartialOrd>::lt) on digit strings
RECURSIVE BytesLt(_, _)
BytesLt(x, y) ==
    IF y = "" THEN FALSE
    ELSE IF x = "" THEN TRUE
    ELSE IF Char(x, 1) # Char(y, 1) THEN DigitValue(Char(x, 1)) < DigitValue(Char(y, 1))
    ELSE BytesLt(SubSeq(x, 2, Len(x)), SubSeq(y, 2, Len(y)))

fr_INSIGNIFICANT ==
    {"alors", "bien", "c'est", "encore", "ensuite", "et", "euh", "heu", "ha", "ah", "hu",
     "hum", "moins", "ok", "oui", "plus", "puis", "voila!"}

fr_lemmatize(word) ==
    IF EndsWith(word, "s") /\ word # "trois" THEN TrimEndMatches(word, "s") ELSE word

\* bitflags Excludable: UN = 1, DEUX = 2, TROIS = 4, QUATRE = 8, CINQ = 16,
\* SIX = 32, UN_SIX = 63
fr_UN == 1
fr_DEUX == 2
fr_TROIS == 4
fr_QUATRE == 8
fr_CINQ == 16
fr_SIX == 32
fr_UN_SIX == 63

\* Excludable::from_bits_truncate(flags).contains(flag), flag a single bit
fr_contains(flags, flag) == (flags \div flag) % 2 = 1

fr_get_morph_marker(word) ==
    IF EndsWith(word, "e!me") THEN MarkerOrdinal("e!me")
    ELSE IF EndsWith(word, "e!mes") THEN MarkerOrdinal("e!mes")
    ELSE IF EndsWith(word, "ier") THEN MarkerOrdinal("er")
    ELSE IF EndsWith(word, "iers") THEN MarkerOrdinal("ers")
    ELSE IF EndsWith(word, "ie!re") THEN MarkerOrdinal("e!re")
    ELSE IF EndsWith(word, "ie!res") THEN MarkerOrdinal("e!res")
    ELSE MarkerNone

\* the arms "dix" to "dix-neuf": units is the digit after the 1
fr_teen(b, units) ==
    CASE peek(b, 2) = "60" -> fput(b, "7" \o units)
      [] peek(b, 2) = "80" -> fput(b, "9" \o units)
      [] OTHER -> put(b, "1" \o units)

\* the match of French::apply: [st, b, to_block]
fr_apply_lemma(lemma, b, blocked) ==
    LET with(r, to_block) == [st |-> r.st, b |-> r.b, to_block |-> to_block]
        err(e) == [st |-> e, b |-> b]
        peek2 == peek(b, 2)
    IN  CASE lemma = "ze'ro" -> with(put(b, "0"), 0)
          [] lemma \in {"un", "unie!me"} /\ ~fr_contains(blocked, fr_UN) -> with(put(b, "1"), 0)
          [] lemma \in {"premier", "premie!re"} /\ is_empty(b) -> with(put(b, "1"), 0)
          [] lemma \in {"deux", "deuxie!me"} /\ ~fr_contains(blocked, fr_DEUX) ->
                with(put(b, "2"), 0)
          [] lemma \in {"trois", "troisie!me"} /\ ~fr_contains(blocked, fr_TROIS) ->
                with(put(b, "3"), 0)
          [] lemma \in {"quatre", "quatrie!me"} /\ ~fr_contains(blocked, fr_QUATRE) ->
                with(put(b, "4"), 0)
          [] lemma \in {"cinq", "cinquie!me"} /\ ~fr_contains(blocked, fr_CINQ) ->
                with(put(b, "5"), 0)
          [] lemma \in {"six", "sixie!me"} /\ ~fr_contains(blocked, fr_SIX) ->
                with(put(b, "6"), 0)
          [] lemma \in {"sept", "septie!me"} -> with(put(b, "7"), 0)
          [] lemma \in {"huit", "huitie!me"} -> with(put(b, "8"), 0)
          [] lemma \in {"neuf", "neuvie!me"} -> with(put(b, "9"), 0)
          [] lemma \in {"dix", "dixie!me"} -> with(fr_teen(b, "0"), fr_UN_SIX)
          [] lemma \in {"onze", "onzie!me"} -> with(fr_teen(b, "1"), 0)
          [] lemma \in {"douze", "douzie!me"} -> with(fr_teen(b, "2"), 0)
          [] lemma \in {"treize", "treizie!me"} -> with(fr_teen(b, "3"), 0)
          [] lemma \in {"quatorze", "quatorzie!me"} -> with(fr_teen(b, "4"), 0)
          [] lemma \in {"quinze", "quinzie!me"} -> with(fr_teen(b, "5"), 0)
          [] lemma \in {"seize", "seizie!me"} -> with(fr_teen(b, "6"), 0)
          [] lemma \in {"dix-sept", "dix-septie!me"} -> with(fr_teen(b, "7"), 0)
          [] lemma \in {"dix-huit", "dix-huitie!me"} -> with(fr_teen(b, "8"), 0)
          [] lemma \in {"dix-neuf", "dix-neuvie!me"} -> with(fr_teen(b, "9"), 0)
          [] lemma \in {"vingt", "vingtie!me"} ->
                IF peek2 \in {"04", "4"} THEN with(fput(b, "80"), 0)
                ELSE with(put(b, "20"), fr_UN)
          [] lemma \in {"trente", "trentie!me"} -> with(put(b, "30"), fr_UN)
          [] lemma \in {"quarante", "quarantie!me"} -> with(put(b, "40"), fr_UN)
          [] lemma \in {"cinquante", "cinquantie!me"} -> with(put(b, "50"), fr_UN)
          [] lemma \in {"soixante", "soixantie!me"} -> with(put(b, "60"), fr_UN)
          [] lemma \in {"septante", "septantie!me"} -> with(put(b, "70"), fr_UN)
          [] lemma \in {"huitante", "huitantie!ne"} -> with(put(b, "80"), fr_UN)
          [] lemma \in {"octante", "octantie!me"} -> with(put(b, "80"), fr_UN)
          [] lemma \in {"nonante", "nonantie!me"} -> with(put(b, "90"), fr_UN)
          [] lemma \in {"cent", "centie!me"} ->
                IF (Len(peek2) = 1 \/ BytesLt(peek2, "20")) /\ peek2 # "1" /\ peek2 # "01"
                THEN with(shift(b, 2), 0)
                ELSE with(err(Overlap), 0)
          [] lemma \in {"mille", "mil", "millie!me"} /\ is_range_free(b, 3, 5) ->
                IF peek2 = "1" THEN with(err(Overlap), 0) ELSE with(shift(b, 3), 0)
          [] lemma = "million" /\ is_range_free(b, 6, 8) -> with(shift(b, 6), 0)
          [] lemma = "millionie!me" /\ is_range_free(b, 6, 8) ->
                IF peek2 = "1" THEN with(err(Overlap), 0) ELSE with(shift(b, 6), 0)
          [] lemma = "milliard" -> with(shift(b, 9), 0)
          [] lemma = "milliardie!me" ->
                IF peek2 = "1" THEN with(err(Overlap), 0) ELSE with(shift(b, 9), 0)
          [] lemma = "et" /\ len(b) >= 2 -> with(err(Incomplete), 0)
          [] OTHER -> with(err(NaN), 0)

\* French::apply for a word that is not a compound
fr_apply_word(num_func, b) ==
    The({IF r.st = Ok
         THEN (IF fr_get_morph_marker(num_func) # MarkerNone
               THEN [st |-> Ok,
                     b |-> freeze([r.b EXCEPT !.flags = r.to_block,
                                              !.marker = fr_get_morph_marker(num_func)])]
               ELSE [st |-> Ok, b |-> [r.b EXCEPT !.flags = r.to_block]])
         ELSE [st |-> r.st, b |-> [r.b EXCEPT !.flags = 0]]
         : r \in {fr_apply_lemma(fr_lemmatize(num_func), b, b.flags)}})

fr_is_compound(num_func) == ContainsChar(num_func, "-") /\ ~StartsWith(num_func, "dix-")

\* LangInterpreter::exec_group on the parts of a French compound; a part
\* holds no '-', so it goes through fr_apply_word
RECURSIVE fr_exec_parts(_, _, _)
fr_exec_parts(group, b, incomplete) ==
    IF group = <<>>
    THEN (IF incomplete THEN [st |-> Incomplete, b |-> b] ELSE [st |-> Ok, b |-> b])
    ELSE The({IF r.st = Incomplete THEN fr_exec_parts(Tail(group), r.b, TRUE)
              ELSE IF r.st = Ok THEN fr_exec_parts(Tail(group), r.b, FALSE)
              ELSE [st |-> r.st, b |-> r.b]
              : r \in {fr_apply_word(Head(group), b)}})

fr_apply(num_func, b) ==
    IF fr_is_compound(num_func)
    THEN The({IF g.st # Ok THEN [st |-> g.st, b |-> b]
              ELSE IF len(g.b) > 3 /\ len(g.b) <= 6 /\ ~is_range_free(b, 3, 5)
              THEN [st |-> Overlap, b |-> b]
              ELSE The({IF p.st # Ok THEN p
                        ELSE IF g.b.marker.kind = "Ordinal"
                        THEN [st |-> Ok,
                              b |-> freeze([p.b EXCEPT !.flags = g.b.flags,
                                                       !.marker = g.b.marker])]
                        ELSE [st |-> Ok, b |-> [p.b EXCEPT !.flags = g.b.flags]]
                        : p \in {put(b, g.b.buffer)}})
              : g \in {fr_exec_parts(Split(num_func, "-"), DigitString_new, FALSE)}})
    ELSE fr_apply_word(num_func, b)

fr_apply_decimal(decimal_func, b) == fr_apply(decimal_func, b)

fr_check_decimal_separator(word) == IF word = "virgule" THEN Some(",") ELSE None

fr_format_and_value(b) ==
    LET repr == to_string(b)
        val == parse_f64(repr)
    IN  IF b.marker.kind = "Ordinal"
        THEN [text |-> repr \o b.marker.suffix, value |-> val]
        ELSE [text |-> repr, value |-> val]

fr_format_decimal_and_value(int, dec, sep) ==
    LET sint == to_string(int)
        sdec == to_string(dec)
    IN  [text |-> sint \o sep \o sdec, value |-> parse_f64(sint \o "." \o sdec)]

fr_is_linking(word) == word \in fr_INSIGNIFICANT

-----------------------------------------------------------------------------
(* tokenizer.rs: WordSplitter, and lang/de/mod.rs: the German interpreter   *)
(* as far as the strict parser uses it ("u:" is u with diaeresis, "sz" the  *)
(* sharp s).  Positions are 1-based.                                        *)

\* the patterns German::default() gives to WordSplitter::new
de_patterns ==
    {"billion", "billionste", "milliarden", "milliarde", "milliardste", "millionen",
     "million", "millionste", "tausend", "tausendste", "hundert", "hundertste", "und"}

\* the patterns that match word at position pos
MatchesAt(patterns, word, pos) ==
    {p \in patterns : pos + Len(p) - 1 <= Len(word) /\ SubSeq(word, pos, pos + Len(p) - 1) = p}

\* leftmost_find_iter(word).next() from position pos on, with
\* MatchKind::LeftmostLongest: None or Some([start, end]), end inclusive
RECURSIVE leftmost_find(_, _, _)
leftmost_find(patterns, word, pos) ==
    IF pos > Len(word) THEN None
    ELSE IF MatchesAt(patterns, word, pos) = {} THEN leftmost_find(patterns, word, pos + 1)
    ELSE The({Some([start |-> pos, end |-> pos + Len(p) - 1])
              : p \in {q \in MatchesAt(patterns, word, pos) :
                          \A o \in MatchesAt(patterns, word, pos) : Len(o) <= Len(q)}})

\* WordSplitIterator, collected: the matches and what lies between them
RECURSIVE WordSplitter_split_from(_, _, _)
WordSplitter_split_from(patterns, word, cursor) ==
    The({IF m = None
         THEN (IF cursor <= Len(word) THEN <<SubSeq(word, cursor, Len(word))>> ELSE <<>>)
         ELSE (IF cursor < m[1].start THEN <<SubSeq(word, cursor, m[1].start - 1)>> ELSE <<>>)
               \o <<SubSeq(word, m[1].start, m[1].end)>>
               \o WordSplitter_split_from(patterns, word, m[1].end + 1)
         : m \in {leftmost_find(patterns, word, cursor)}})

WordSplitter_split(patterns, word) == WordSplitter_split_from(patterns, word, 1)

WordSplitter_is_splittable(patterns, word) ==
    The({m # None /\ (m[1].start > 1 \/ m[1].end < Len(word))
         : m \in {leftmost_find(patterns, word, 1)}})

\* str::trim_end_matches([..]) for a set of characters
RECURSIVE TrimEndMatchesAny(_, _)
TrimEndMatchesAny(s, chars) ==
    IF s # "" /\ Char(s, Len(s)) \in chars
    THEN TrimEndMatchesAny(SubSeq(s, 1, Len(s) - 1), chars)
    ELSE s

de_lemmatize(word) ==
    IF EndsWith(word, "tes") \/ EndsWith(word, "ter") \/ EndsWith(word, "ten")
       \/ EndsWith(word, "tem")
    THEN TrimEndMatchesAny(word, {"s", "n", "m", "r"})
    ELSE word

\* bitflags Excludable: TENS = 1
de_TENS == 1

de_get_morph_marker(word) ==
    IF EndsWith(word, "te") THEN MarkerOrdinal(".") ELSE MarkerNone

\* the match of German::apply: [st, b, to_block]
de_apply_lemma(lemma, b, blocked) ==
    LET with(r, to_block) == [st |-> r.st, b |-> r.b, to_block |-> to_block]
        err(e) == [st |-> e, b |-> b]
        free2 == is_free(b, 2)
        tens == blocked % 2 = 0
    IN  CASE lemma = "null" -> with(put(b, "0"), 0)
          [] lemma \in {"ein", "eins", "erste"} /\ free2 -> with(put(b, "1"), de_TENS)
          [] lemma \in {"zwei", "zwo", "zweite"} /\ free2 -> with(put(b, "2"), de_TENS)
          [] lemma \in {"drei", "dritte"} /\ free2 -> with(put(b, "3"), de_TENS)
          [] lemma \in {"vier", "vierte"} /\ free2 -> with(put(b, "4"), de_TENS)
          [] lemma \in {"fu:nf", "fu:nfte"} /\ free2 -> with(put(b, "5"), de_TENS)
          [] lemma \in {"sechs", "sechste"} /\ free2 -> with(put(b, "6"), de_TENS)
          [] lemma \in {"sieben", "siebte"} /\ free2 -> with(put(b, "7"), de_TENS)
          [] lemma \in {"acht", "achte"} /\ free2 -> with(put(b, "8"), de_TENS)
          [] lemma \in {"neun", "neunte"} /\ free2 -> with(put(b, "9"), de_TENS)
          [] lemma \in {"zehn", "zehnte"} -> with(put(b, "10"), 0)
          [] lemma \in {"elf", "elfte"} -> with(put(b, "11"), 0)
          [] lemma \in {"zwo:lf", "zwo:lfte"} -> with(put(b, "12"), 0)
          [] lemma \in {"dreizehn", "dreizehnte"} -> with(put(b, "13"), 0)
          [] lemma \in {"vierzehn", "vierzehnte"} -> with(put(b, "14"), 0)
          [] lemma \in {"fu:nfzehn", "fu:nfzehnte"} -> with(put(b, "15"), 0)
          [] lemma \in {"sechzehn", "sechzehnte"} -> with(put(b, "16"), 0)
          [] lemma \in {"siebzehn", "siebzehnte"} -> with(put(b, "17"), 0)
          [] lemma \in {"achtzehn", "achtzehnte"} -> with(put(b, "18"), 0)
          [] lemma \in {"neunzehn", "neunzehnte"} -> with(put(b, "19"), 0)
          [] lemma \in {"zwanzig", "zwanzigste"} /\ tens -> with(put_digit_at(b, "2", 1), 0)
          [] lemma \in {"dreiszig", "dreissig", "dreiszigste", "dreissigste"} /\ tens ->
                with(put_digit_at(b, "3", 1), 0)
          [] lemma \in {"vierzig", "vierzigste"} /\ tens -> with(put_digit_at(b, "4", 1), 0)
          [] lemma \in {"fu:nfzig", "fu:nfzigste"} /\ tens -> with(put_digit_at(b, "5", 1), 0)
          [] lemma \in {"sechzig", "sechzigste"} /\ tens -> with(put_digit_at(b, "6", 1), 0)
          [] lemma \in {"siebzig", "siebzigste"} /\ tens -> with(put_digit_at(b, "7", 1), 0)
          [] lemma \in {"achtzig", "achtzigste"} /\ tens -> with(put_digit_at(b, "8", 1), 0)
          [] lemma \in {"neunzig", "neunzigste"} /\ tens -> with(put_digit_at(b, "9", 1), 0)
          [] lemma \in {"hundert", "hundertste"} ->
                IF Len(peek(b, 2)) = 1 \/ BytesLt(peek(b, 2), "20")
                THEN with(shift(b, 2), 0)
                ELSE with(err(Overlap), 0)
          [] lemma \in {"tausend", "tausendste"} /\ is_range_free(b, 3, 5) ->
                with(shift(b, 3), 0)
          [] lemma \in {"million", "millionen", "millionste"} /\ is_range_free(b, 6, 8) ->
                with(shift(b, 6), 0)
          [] lemma \in {"milliarde", "milliarden", "milliardste"} -> with(shift(b, 9), 0)
          [] lemma \in {"billion", "billionste"} -> with(shift(b, 12), 0)
          [] lemma = "und" -> with(err(Incomplete), 0)
          [] OTHER -> with(err(NaN), 0)

\* fault injection for C35: an accepted word never blocks the tens
de_apply_word_blocks_nothing(num_func, b) ==
    LET lemma == de_lemmatize(num_func)
    IN
    The({IF r.st = Ok
         THEN [st |-> Ok,
               b |-> The({IF EndsWith(lemma, "te")
                          THEN freeze([b1 EXCEPT !.marker = de_get_morph_marker(lemma)])
                          ELSE IF lemma = "eins" THEN freeze(b1)
                          ELSE b1
                          : b1 \in {[r.b EXCEPT !.flags = 0]}})]
         ELSE [st |-> r.st, b |-> [r.b EXCEPT !.flags = 0]]
         : r \in {de_apply_lemma(lemma, b, b.flags)}})

\* German::apply for a word the splitter leaves whole
de_apply_word(num_func, b) ==
    LET lemma == de_lemmatize(num_func)
    IN
    The({IF r.st = Ok
         THEN [st |-> Ok,
               b |-> The({IF EndsWith(lemma, "te")
                          THEN freeze([b1 EXCEPT !.marker = de_get_morph_marker(lemma)])
                          ELSE IF lemma = "eins" THEN freeze(b1)
                          ELSE b1
                          : b1 \in {[r.b EXCEPT !.flags = r.to_block]}})]
         ELSE [st |-> r.st, b |-> [r.b EXCEPT !.flags = 0]]
         : r \in {de_apply_lemma(lemma, b, b.flags)}})

\* LangInterpreter::exec_group on the parts of a German compound; the
\* splitter leaves each part whole
RECURSIVE de_exec_parts(_, _, _)
de_exec_parts(group, b, incomplete) ==
    IF group = <<>>
    THEN (IF incomplete THEN [st |-> Incomplete, b |-> b] ELSE [st |-> Ok, b |-> b])
    ELSE The({IF r.st = Incomplete THEN de_exec_parts(Tail(group), r.b, TRUE)
              ELSE IF r.st = Ok THEN de_exec_parts(Tail(group), r.b, FALSE)
              ELSE [st |-> r.st, b |-> r.b]
              : r \in {de_apply_word(Head(group), b)}})

de_apply(num_func, b) ==
    IF WordSplitter_is_splittable(de_patterns, de_lemmatize(num_func))
    THEN The({IF g.st # Ok THEN [st |-> g.st, b |-> b]
              ELSE IF len(g.b) > 3 /\ len(g.b) <= 6 /\ ~is_range_free(b, 3, 5)
              THEN [st |-> Overlap, b |-> b]
              ELSE The({IF p.st # Ok THEN p
                        ELSE IF g.b.marker.kind = "Ordinal"
                        THEN [st |-> Ok, b |-> freeze([p.b EXCEPT !.marker = g.b.marker])]
                        ELSE p
                        : p \in {put(b, g.b.buffer)}})
              : g \in {de_exec_parts(WordSplitter_split(de_patterns, de_lemmatize(num_func)),
                                     DigitString_new, FALSE)}})
    ELSE de_apply_word(num_func, b)

de_format_and_value(b) ==
    LET repr == to_string(b)
        val == parse_f64(repr)
    IN  IF b.marker.kind = "Ordinal"
        THEN [text |-> repr \o b.marker.suffix, value |-> val]
        ELSE [text |-> repr, value |-> val]

-----------------------------------------------------------------------------
(* lang/mod.rs: the Language enum delegates to the interpreter of the      *)
(* language.                                                               *)

Lang_apply(lang, num_func, b) ==
    CASE lang = "en" -> en_apply(num_func, b)
      [] lang = "pt" -> pt_apply(num_func, b)
      [] lang = "fr" -> fr_apply(num_func, b)
      [] lang = "de" -> de_apply(num_func, b)

Lang_apply_decimal(lang, decimal_func, b) ==
    CASE lang = "en" -> en_apply_decimal(decimal_func, b)
      [] lang = "pt" -> pt_apply_decimal(decimal_func, b)
      [] lang = "fr" -> fr_apply_decimal(decimal_func, b)

Lang_check_decimal_separator(lang, word) ==
    CASE lang = "en" -> en_check_decimal_separator(word)
      [] lang = "pt" -> pt_check_decimal_separator(word)
      [] lang = "fr" -> fr_check_decimal_separator(word)

Lang_format_and_value(lang, b) ==
    CASE lang = "en" -> en_format_and_value(b)
      [] lang = "pt" -> pt_format_and_value(b)
      [] lang = "fr" -> fr_format_and_value(b)
      [] lang = "de" -> de_format_and_value(b)

Lang_format_decimal_and_value(lang, int, dec, sep) ==
    CASE lang = "en" -> en_format_decimal_and_value(int, dec, sep)
      [] lang = "pt" -> pt_format_decimal_and_value(int, dec, sep)
      [] lang = "fr" -> fr_format_decimal_and_value(int, dec, sep)

Lang_is_linking(lang, word) ==
    CASE lang = "en" -> en_is_linking(word)
      [] lang = "pt" -> pt_is_linking(word)
      [] lang = "fr" -> fr_is_linking(word)

-----------------------------------------------------------------------------
(* tokenizer.rs and word_to_digit.rs: tokens *)

LowerChar(c) ==
    CASE c = "A" -> "a" [] c = "B" -> "b" [] c = "C" -> "c" [] c = "D" -> "d"
      [] c = "E" -> "e" [] c = "F" -> "f" [] c = "G" -> "g" [] c = "H" -> "h"
      [] c = "I" -> "i" [] c = "J" -> "j" [] c = "K" -> "k" [] c = "L" -> "l"
      [] c = "M" -> "m" [] c = "N" -> "n" [] c = "O" -> "o" [] c = "P" -> "p"
      [] c = "Q" -> "q" [] c = "R" -> "r" [] c = "S" -> "s" [] c = "T" -> "t"
      [] c = "U" -> "u" [] c = "V" -> "v" [] c = "W" -> "w" [] c = "X" -> "x"
      [] c = "Y" -> "y" [] c = "Z" -> "z" [] OTHER -> c

RECURSIVE to_lowercase(_)
to_lowercase(s) ==
    IF s = "" THEN "" ELSE LowerChar(Char(s, 1)) \o to_lowercase(SubSeq(s, 2, Len(s)))

\* BasicToken::new, with the two hints of the Token trait as fields:
\*   nan   - not_a_number_part()
\*   pause - nt_separated(previous): the token comes after a long pause
BasicToken_new(text) ==
    [text |-> text, lowercase |-> to_lowercase(text), nan |-> FALSE, pause |-> FALSE]

\* nt_separated taking every token for one said after a pause
nt_separated_always(token, previous) == TRUE

\* impl Replace for BasicToken
BasicToken_replace(data) ==
    [text |-> data, lowercase |-> to_lowercase(data), nan |-> FALSE, pause |-> FALSE]

nt_separated(token, prev) == token.pause

is_whitespace(token) == \A i \in 1..Len(token) : Char(token, i) \in Whitespace

-----------------------------------------------------------------------------
(* tokenizer.rs: the plain text tokenizer.  Positions are 1-based; a match *)
(* function is given the position of the next character and returns the    *)
(* position of the last character of the token.                            *)

Digits == {"0", "1", "2", "3", "4", "5", "6", "7", "8", "9"}

\* char::is_alphanumeric on the characters the model uses
IsAlphanumeric(c) == c \in Letters \/ c \in Digits

RECURSIVE match_word(_, _)
match_word(source, pos) ==
    IF pos > Len(source) THEN Len(source)
    ELSE IF ~(IsAlphanumeric(Char(source, pos)) \/ Char(source, pos) \in {"-", "'"})
    THEN pos - 1
    ELSE match_word(source, pos + 1)

RECURSIVE match_sep(_, _)
match_sep(source, pos) ==
    IF pos > Len(source) THEN Len(source)
    ELSE IF IsAlphanumeric(Char(source, pos)) THEN pos - 1
    ELSE match_sep(source, pos + 1)

\* Tokenize::next, called until it returns None
RECURSIVE tokenize_from(_, _)
tokenize_from(source, pos) ==
    IF pos > Len(source) THEN <<>>
    ELSE The({<<BasicToken_new(SubSeq(source, pos, end))>> \o tokenize_from(source, end + 1)
              : end \in {IF IsAlphanumeric(Char(source, pos))
                         THEN match_word(source, pos + 1)
                         ELSE match_sep(source, pos + 1)}})

tokenize(source) == tokenize_from(source, 1)

\* the loop of English::basic_annotate over the significant tokens
\* (sig: their indices), from the j-th on, with the buffer b
RECURSIVE en_annotate_from(_, _, _, _)
en_annotate_from(toks, sig, j, b) ==
    IF j > Len(sig) THEN toks
    ELSE IF toks[sig[j]].lowercase # "o" THEN en_annotate_from(toks, sig, j + 1, b)
    ELSE The({IF j > 1 /\ rp.st = Ok
              THEN en_annotate_from(toks, sig, j + 1, reset(rp.b))
              ELSE The({IF j + 1 <= Len(sig) /\ rn.st = Ok
                        THEN en_annotate_from(toks, sig, j + 1, reset(rn.b))
                        ELSE en_annotate_from([toks EXCEPT ![sig[j]].nan = TRUE],
                                              sig, j + 1, rn.b)
                        : rn \in {IF j + 1 <= Len(sig)
                                  THEN en_apply(toks[sig[j + 1]].lowercase, rp.b)
                                  ELSE [st |-> NaN, b |-> rp.b]}})
              : rp \in {IF j > 1 THEN en_apply(toks[sig[j - 1]].lowercase, b)
                        ELSE [st |-> NaN, b |-> b]}})

\* the indices of the tokens that are not all whitespace, in order
significant_tokens_indices(toks) ==
    SelectSeq([i \in 1..Len(toks) |-> i], LAMBDA i : ~is_whitespace(toks[i].lowercase))

en_basic_annotate(toks) ==
    en_annotate_from(toks, significant_tokens_indices(toks), 1, DigitString_new)

\* the indices of the tokens that hold an alphanumeric character, in order
fr_true_words(toks) ==
    SelectSeq([i \in 1..Len(toks) |-> i],
              LAMBDA i : \E k \in 1..Len(toks[i].lowercase) :
                            IsAlphanumeric(Char(toks[i].lowercase, k)))

\* the second loop of French::basic_annotate over the true words (tw: their
\* indices), from the j-th on, with the buffer b: only "neuf" is ambiguous
RECURSIVE fr_annotate_from(_, _, _, _)
fr_annotate_from(toks, tw, j, b) ==
    LET article(i) == toks[tw[i]].lowercase \in {"un", "le", "du", "l'"}
    IN  IF j > Len(tw) THEN toks
        ELSE IF toks[tw[j]].lowercase # "neuf" \/ j < 3
        THEN fr_annotate_from(toks, tw, j + 1, b)
        ELSE IF ~(article(j - 2) \/ (j > 3 /\ article(j - 3)))
        THEN fr_annotate_from(toks, tw, j + 1, b)
        ELSE IF toks[tw[j - 1]].lowercase = "nume'ro"
        THEN fr_annotate_from(toks, tw, j + 1, b)
        ELSE The({IF rp.st = Ok THEN fr_annotate_from(toks, tw, j + 1, rp.b)
                  ELSE The({IF rn.st = Ok THEN fr_annotate_from(toks, tw, j + 1, rn.b)
                            ELSE fr_annotate_from([toks EXCEPT ![tw[j]].nan = TRUE],
                                                  tw, j + 1, rn.b)
                            : rn \in {fr_apply(IF j + 1 <= Len(tw)
                                               THEN toks[tw[j + 1]].lowercase ELSE "",
                                               rp.b)}})
                  : rp \in {fr_apply(toks[tw[j - 1]].lowercase, b)}})

fr_basic_annotate(toks) == fr_annotate_from(toks, fr_true_words(toks), 1, DigitString_new)

\* LangInterpreter::basic_annotate: English overrides the default, which
\* leaves the tokens alone
Lang_basic_annotate(lang, toks) ==
    CASE lang = "en" -> en_basic_annotate(toks)
      [] lang = "fr" -> fr_basic_annotate(toks)
      [] lang = "pt" -> toks

-----------------------------------------------------------------------------
(* word_to_digit.rs: WordToDigitParser *)

WordToDigitParser_new(lang) ==
    [int_part |-> DigitString_new, dec_part |-> DigitString_new,
     dec_separator |-> None, lang |-> lang]

WordToDigitParser_reset(p) ==
    [p EXCEPT !.int_part = reset(@), !.dec_part = reset(@), !.dec_separator = None]

\* fault injection for C31: the separator is looked for on an empty integer
\* part too
WordToDigitParser_push_any_separator(p, word) ==
    The({LET p1 == IF p.dec_separator # None
                   THEN [p EXCEPT !.dec_part = r.b]
                   ELSE [p EXCEPT !.int_part = r.b]
             sep == Lang_check_decimal_separator(p.lang, word)
         IN  IF r.st # Ok /\ p1.dec_separator = None
             THEN [st |-> IF sep # None THEN Incomplete ELSE r.st,
                   p |-> [p1 EXCEPT !.dec_separator = sep]]
             ELSE [st |-> r.st, p |-> p1]
         : r \in {IF p.dec_separator # None
                  THEN Lang_apply_decimal(p.lang, word, p.dec_part)
                  ELSE Lang_apply(p.lang, word, p.int_part)}})

\* [st |-> result, p |-> parser after the call]
WordToDigitParser_push(p, word) ==
    The({LET p1 == IF p.dec_separator # None
                   THEN [p EXCEPT !.dec_part = r.b]
                   ELSE [p EXCEPT !.int_part = r.b]
             sep == Lang_check_decimal_separator(p.lang, word)
         IN  IF r.st # Ok /\ p1.dec_separator = None /\ ~is_empty(p1.int_part)
             THEN [st |-> IF sep # None THEN Incomplete ELSE r.st,
                   p |-> [p1 EXCEPT !.dec_separator = sep]]
             ELSE [st |-> r.st, p |-> p1]
         : r \in {IF p.dec_separator # None
                  THEN Lang_apply_decimal(p.lang, word, p.dec_part)
                  ELSE Lang_apply(p.lang, word, p.int_part)}})

\* [text, value, p |-> parser after the call]
WordToDigitParser_string_and_value(p) ==
    The({[text |-> res.text, value |-> res.value, p |-> WordToDigitParser_reset(p)]
         : res \in {IF ~is_empty(p.dec_part)
                    THEN Lang_format_decimal_and_value(p.lang, p.int_part, p.dec_part,
                                                       p.dec_separator[1])
                    ELSE Lang_format_and_value(p.lang, p.int_part)}})

has_number(p) == ~is_empty(p.int_part)

-----------------------------------------------------------------------------
(* word_to_digit.rs: Occurence and NumTracker *)

Occurence(start, end, text, value, ordinal) ==
    [start |-> start, end |-> end, text |-> text, value |-> value, is_ordinal |-> ordinal]

NumTracker_new ==
    [matches |-> <<>>, on_hold |-> None, last_contiguous_match |-> "None",
     match_start |-> 0, match_end |-> 0]

\* fault injection for C10: the end of the range is the last accepted token
number_advanced_inclusive_end(t, pos) ==
    [t EXCEPT !.match_start = IF t.match_start = t.match_end THEN pos ELSE @,
              !.match_end = pos]

\* fault injection for C28: the range always starts at the first token
number_advanced_from_first(t, pos) ==
    [t EXCEPT !.match_start = 0, !.match_end = pos + 1]

number_advanced(t, pos) ==
    [t EXCEPT !.match_start = IF t.match_start = t.match_end THEN pos ELSE @,
              !.match_end = pos + 1]

\* fault injection for C6: a contiguous number does not bring the held one back
NumTracker_number_end_drops_held(t, ordinal, digits, value, forget_if_isolate) ==
    LET occurence == Occurence(t.match_start, t.match_end, digits, value, ordinal)
        kind == IF ordinal THEN "Ordinal" ELSE "Cardinal"
        lcm == IF t.last_contiguous_match # kind THEN "None" ELSE t.last_contiguous_match
        t1 == IF lcm # "None"
              THEN [t EXCEPT !.matches = Append(@, occurence), !.on_hold = None]
              ELSE IF forget_if_isolate
              THEN [t EXCEPT !.on_hold = Some(occurence)]
              ELSE [t EXCEPT !.matches = Append(@, occurence), !.on_hold = None]
    IN  [t1 EXCEPT !.last_contiguous_match = kind, !.match_start = t.match_end]

NumTracker_number_end(t, ordinal, digits, value, forget_if_isolate) ==
    LET occurence == Occurence(t.match_start, t.match_end, digits, value, ordinal)
        kind == IF ordinal THEN "Ordinal" ELSE "Cardinal"
        lcm == IF t.last_contiguous_match # kind THEN "None" ELSE t.last_contiguous_match
        t1 == IF lcm # "None"
              THEN [t EXCEPT !.matches = @ \o t.on_hold \o <<occurence>>,
                             !.on_hold = None]
              ELSE IF forget_if_isolate
              THEN [t EXCEPT !.on_hold = Some(occurence)]
              ELSE [t EXCEPT !.matches = Append(@, occurence), !.on_hold = None]
    IN  [t1 EXCEPT !.last_contiguous_match = kind, !.match_start = t.match_end]

sequence_breaker(t) == [t EXCEPT !.last_contiguous_match = "None"]

\* Vec::drain(start..end) panics when start > end or end > len
PanicTokens == <<BasicToken_new("<panic>")>>

RECURSIVE replace_from(_, _)
replace_from(rev_matches, toks) ==
    IF rev_matches = <<>> \/ toks = PanicTokens THEN toks
    ELSE LET m == Head(rev_matches)
         IN  IF m.start > m.end \/ m.end > Len(toks) THEN PanicTokens
             ELSE replace_from(Tail(rev_matches),
                               SubSeq(toks, 1, m.start)
                               \o <<BasicToken_replace(m.text)>>
                               \o SubSeq(toks, m.end + 1, Len(toks)))

\* fault injection for C9: the ranges are replaced from the first to the last
NumTracker_replace_forward(t, toks) == replace_from(t.matches, toks)

Reverse(seq) == [i \in 1..Len(seq) |-> seq[Len(seq) + 1 - i]]

NumTracker_replace(t, toks) == replace_from(Reverse(t.matches), toks)

-----------------------------------------------------------------------------
(* word_to_digit.rs: FindNumbers.  The scanner is the record               *)
(*   [parser, tracker, previous, threshold, log]                           *)
(* where log is the history of the run:                                    *)
(*   log.oks    the positions of the tokens the parser accepted (Ok) for   *)
(*              the number in progress,                                    *)
(*   log.cands  one entry per number ended: its occurrence, the positions  *)
(*              of the tokens the parser accepted for it, and whether the  *)
(*              tracker put it on hold when it ended.                      *)

EmptyLog == [oks |-> <<>>, cands |-> <<>>]

FindNumbers_new(lang, th) ==
    [parser |-> WordToDigitParser_new(lang), tracker |-> NumTracker_new,
     previous |-> None, threshold |-> th, log |-> EmptyLog]

\* fault injection for C5: the threshold is tested for the ordinals only
FindNumbers_forget_one_digit(digits, ordinal, value, threshold) ==
    Len(digits) = 1 \/ (ordinal /\ ValueLt(value, threshold))

\* fault injection for C8: the comparison with the threshold is inverted
FindNumbers_forget_large(digits, ordinal, value, threshold) ==
    (Len(digits) = 1 \/ ordinal) /\ ~ValueLt(value, threshold)

\* the argument forget_if_isolate of tracker.number_end
FindNumbers_forget_if_isolate(digits, ordinal, value, threshold) ==
    (Len(digits) = 1 \/ ordinal) /\ ValueLt(value, threshold)

FindNumbers_number_end(s) ==
    LET ordinal == is_ordinal(s.parser.int_part)
    IN  The({LET forget_if_isolate ==
                     FindNumbers_forget_if_isolate(sv.text, ordinal, sv.value,
                                                   s.threshold)
                 occ == Occurence(s.tracker.match_start, s.tracker.match_end, sv.text,
                                  sv.value, ordinal)
             IN  The({[s EXCEPT !.parser = sv.p, !.tracker = t1,
                                !.log = [oks |-> <<>>,
                                         cands |-> Append(s.log.cands,
                                                          [occ |-> occ, oks |-> s.log.oks,
                                                           held |-> t1.on_hold = Some(occ)])]]
                      : t1 \in {NumTracker_number_end(s.tracker, ordinal, sv.text,
                                                      sv.value, forget_if_isolate)}})
             : sv \in {WordToDigitParser_string_and_value(s.parser)}})

all_not_alphabetic(text) == \A i \in 1..Len(text) : ~IsAlphabetic(Char(text, i))

FindNumbers_outside_number(s, token) ==
    LET text == token.text
    IN  IF ~((all_not_alphabetic(text) /\ Trim(text) # ".")
             \/ Lang_is_linking(s.parser.lang, text))
        THEN [s EXCEPT !.tracker = sequence_breaker(@)]
        ELSE s

\* the parser accepted the token at pos: tracker.number_advanced(pos)
FindNumbers_advanced(s, pos) ==
    [s EXCEPT !.tracker = number_advanced(@, pos), !.log.oks = Append(@, pos)]

\* fault injection for C29: the token that ended the number is not tried again
FindNumbers_push_again_drops(s1, pos, token) ==
    FindNumbers_outside_number(FindNumbers_number_end(s1), token)

\* the arm Err(_) of FindNumbers::push when a number is in progress: the
\* number ends and the token is tried again on the emptied parser
FindNumbers_push_again(s1, pos, token) ==
    The({The({LET s3 == [s2 EXCEPT !.parser = r2.p]
              IN  IF r2.st = Ok THEN FindNumbers_advanced(s3, pos)
                  ELSE FindNumbers_outside_number(s3, token)
              : r2 \in {WordToDigitParser_push(s2.parser, token.lowercase)}})
         : s2 \in {FindNumbers_number_end(s1)}})

\* fault injection for C11: the pause before a token is not looked at
FindNumbers_push_no_pause(s, pos, token) ==
    IF token.text = "-" \/ is_whitespace(token.text) THEN s
    ELSE IF token.nan
    THEN LET s1 == IF has_number(s.parser) THEN FindNumbers_number_end(s) ELSE s
         IN  [FindNumbers_outside_number(s1, token) EXCEPT !.previous = Some(token)]
    ELSE
      The({LET s1 == [s EXCEPT !.parser = r.p]
               after ==
                 IF r.st = Ok THEN FindNumbers_advanced(s1, pos)
                 ELSE IF r.st = Incomplete THEN s1
                 ELSE IF has_number(s1.parser)
                 THEN FindNumbers_push_again(s1, pos, token)
                 ELSE FindNumbers_outside_number(s1, token)
           IN  [after EXCEPT !.previous = Some(token)]
           : r \in {WordToDigitParser_push(s.parser, token.lowercase)}})

\* fault injection for C30: the not-a-number-part flag is not looked at
FindNumbers_push_ignores_nan(s, pos, token) ==
    IF token.text = "-" \/ is_whitespace(token.text) THEN s
    ELSE
      LET lo_token == token.lowercase
          test == IF s.previous # None /\ has_number(s.parser)
                     /\ nt_separated(token, s.previous[1])
                  THEN "," ELSE lo_token
      IN  The({LET s1 == [s EXCEPT !.parser = r.p]
                   after ==
                     IF r.st = Ok THEN FindNumbers_advanced(s1, pos)
                     ELSE IF r.st = Incomplete THEN s1
                     ELSE IF has_number(s1.parser)
                     THEN FindNumbers_push_again(s1, pos, token)
                     ELSE FindNumbers_outside_number(s1, token)
               IN  [after EXCEPT !.previous = Some(token)]
               : r \in {WordToDigitParser_push(s.parser, test)}})

FindNumbers_push(s, pos, token) ==
    IF token.text = "-" \/ is_whitespace(token.text) THEN s
    ELSE IF token.nan
    THEN LET s1 == IF has_number(s.parser) THEN FindNumbers_number_end(s) ELSE s
         IN  [FindNumbers_outside_number(s1, token) EXCEPT !.previous = Some(token)]
    ELSE
      LET lo_token == token.lowercase
          test == IF s.previous # None /\ has_number(s.parser)
                     /\ nt_separated(token, s.previous[1])
                  THEN "," ELSE lo_token
      IN  The({LET s1 == [s EXCEPT !.parser = r.p]
                   after ==
                     IF r.st = Ok THEN FindNumbers_advanced(s1, pos)
                     ELSE IF r.st = Incomplete THEN s1
                     ELSE IF has_number(s1.parser)
                     THEN FindNumbers_push_again(s1, pos, token)
                     ELSE FindNumbers_outside_number(s1, token)
               IN  [after EXCEPT !.previous = Some(token)]
               : r \in {WordToDigitParser_push(s.parser, test)}})

FindNumbers_finalize(s) ==
    IF has_number(s.parser) THEN FindNumbers_number_end(s) ELSE s

has_matches(t) == t.matches # <<>>

\* fault injection for C17: the newest match is handed out first
NumTracker_pop_back(t) ==
    IF t.matches = <<>> THEN [t |-> t, item |-> None]
    ELSE [t |-> [t EXCEPT !.matches = SubSeq(@, 1, Len(@) - 1)],
          item |-> Some(t.matches[Len(t.matches)])]

\* self.matches.pop_front(): [t |-> tracker after the call, item |-> Option]
NumTracker_pop(t) ==
    IF t.matches = <<>> THEN [t |-> t, item |-> None]
    ELSE [t |-> [t EXCEPT !.matches = Tail(@)], item |-> Some(Head(t.matches))]

\* what Iterator::next returns: the scanner after the call, the number of
\* tokens taken from the input so far, and the item
Yield(s, pos) ==
    The({[s |-> [s EXCEPT !.tracker = r.t], pos |-> pos, item |-> r.item]
         : r \in {NumTracker_pop(s.tracker)}})

\* the while loop of Iterator::next and what follows it
RECURSIVE Iterator_next_loop(_, _, _)
Iterator_next_loop(s, toks, pos) ==
    IF pos >= Len(toks) THEN Yield(FindNumbers_finalize(s), pos)
    ELSE The({IF has_matches(s1.tracker) THEN Yield(s1, pos + 1)
              ELSE Iterator_next_loop(s1, toks, pos + 1)
              : s1 \in {FindNumbers_push(s, pos, toks[pos + 1])}})

\* Iterator::next for FindNumbers over the input toks, pos tokens of which
\* have been taken
Iterator_next(s, toks, pos) ==
    IF has_matches(s.tracker) THEN Yield(s, pos)
    ELSE Iterator_next_loop(s, toks, pos)

-----------------------------------------------------------------------------
(* word_to_digit.rs: the entry points, as functions of the whole stream *)

\* str::split_whitespace: the maximal runs of non-whitespace characters
RECURSIVE SplitWhitespaceFrom(_, _, _)
SplitWhitespaceFrom(s, i, cur) ==
    IF i > Len(s) THEN (IF cur = "" THEN <<>> ELSE <<cur>>)
    ELSE IF Char(s, i) \in Whitespace
    THEN (IF cur = "" THEN <<>> ELSE <<cur>>) \o SplitWhitespaceFrom(s, i + 1, "")
    ELSE SplitWhitespaceFrom(s, i + 1, cur \o Char(s, i))

split_whitespace(s) == SplitWhitespaceFrom(s, 1, "")

\* LangInterpreter::exec_group: the loop over the words left in group, with
\* the buffer b and the flag incomplete of the loop
RECURSIVE exec_group_from(_, _, _, _)
exec_group_from(lang, group, b, incomplete) ==
    IF group = <<>>
    THEN (IF incomplete THEN [st |-> Incomplete, b |-> b] ELSE [st |-> Ok, b |-> b])
    ELSE The({IF r.st = Incomplete THEN exec_group_from(lang, Tail(group), r.b, TRUE)
              ELSE IF r.st = Ok THEN exec_group_from(lang, Tail(group), r.b, FALSE)
              ELSE [st |-> r.st, b |-> r.b]
              : r \in {Lang_apply(lang, Head(group), b)}})

exec_group(lang, group) == exec_group_from(lang, group, DigitString_new, FALSE)

\* the outcome of a call that panicked
Panicked == [st |-> "panic", text |-> ""]

\* text2digits: [st |-> Ok, text |-> digits], [st |-> error, text |-> ""] or
\* Panicked (the unwrap() of format_and_value)
text2digits(txt, lang) ==
    The({IF g.st # Ok THEN [st |-> g.st, text |-> ""]
         ELSE The({IF fv.value = PanicValue THEN Panicked
                   ELSE [st |-> Ok, text |-> fv.text]
                   : fv \in {Lang_format_and_value(lang, g.b)}})
         : g \in {exec_group(lang, split_whitespace(to_lowercase(txt)))}})

RECURSIVE scan_from(_, _, _)
scan_from(s, toks, pos) ==
    IF pos >= Len(toks) THEN FindNumbers_finalize(s)
    ELSE scan_from(FindNumbers_push(s, pos, toks[pos + 1]), toks, pos + 1)

track_numbers(toks, lang, th) == scan_from(FindNumbers_new(lang, th), toks, 0).tracker

find_numbers(toks, lang, th) == track_numbers(toks, lang, th).matches

replace_numbers_in_stream(toks, lang, th) ==
    NumTracker_replace(track_numbers(toks, lang, th), toks)

\* out.join("")
RECURSIVE join(_), join_with_space(_)
\* fault injection for C18: the tokens are joined with a space between them
join_with_space(toks) ==
    IF toks = <<>> THEN "" ELSE Head(toks).text \o " " \o join_with_space(Tail(toks))

join(toks) == IF toks = <<>> THEN "" ELSE Head(toks).text \o join(Tail(toks))

\* [st, text]: st is "panic" when tracker.replace panics
replace_numbers_in_text(txt, lang, th) ==
    The({IF out = PanicTokens THEN Panicked ELSE [st |-> Ok, text |-> join(out)]
         : out \in {replace_numbers_in_stream(Lang_basic_annotate(lang, tokenize(txt)),
                                              lang, th)}})

-----------------------------------------------------------------------------
(* Inputs *)

ArgDigits == {"0", "1", "5"}

RECURSIVE DigitStrings(_)
DigitStrings(n) ==
    IF n = 0 THEN {""}
    ELSE {d \o c : d \in DigitStrings(n - 1), c \in ArgDigits}

\* the digit strings handed to put, fput and push
DigitArgs == UNION {DigitStrings(n) : n \in 1..MaxArgLen}

\* the digit strings of the put-then-shift runs
PutArgs == UNION {DigitStrings(n) : n \in 1..MaxPutLen}

Thresholds == {0, 2, 10}

Vocabulary ==
    {BasicToken_new(w) :
        w \in {"one", "twelve", "third", "hundred", "billion", "twenty-one", "point", "and",
               "uh", "cows", ", ", ".", " ", "-"}}
    \cup {[BasicToken_new("two") EXCEPT !.pause = TRUE],
          [BasicToken_new("o") EXCEPT !.nan = TRUE]}

NoCall == [op |-> "new", digits |-> "", n |-> 0, st |-> Ok]

ScannerIdle ==
    /\ tokens = <<>>
    /\ fn = FindNumbers_new("en", 0)
    /\ output = <<>>

BufferIdle ==
    /\ ds = DigitString_new
    /\ call = NoCall

NoResult == [st |-> "none", text |-> ""]

TextIdle ==
    /\ input = ""
    /\ result = NoResult

\* the pieces the texts are made of
Pieces == {" ", "one", "Twenty", "twenty-one", "hundred", "and", "third", "zero", "cows"}

\* the pieces of the texts handed to replace_numbers_in_text
TextPieces == {"one ", "sixty-", "third", "point ", "o ", "cows ", ", "}

\* the tokens of the streams handed to the lazy iterator
IterVocabulary ==
    {BasicToken_new(w) : w \in {"one", "third", "hundred", "twenty-one", "and", "cows", " "}}
    \cup {[BasicToken_new("two") EXCEPT !.pause = TRUE]}

RECURSIVE Streams(_)
Streams(n) ==
    IF n = 0 THEN {<<>>}
    ELSE The({prev \cup {Append(s, t) : s \in prev, t \in IterVocabulary}
              : prev \in {Streams(n - 1)}})

Languages == {"en", "pt"}

\* the words pushed to the parser of a language
ParserWords(lang) ==
    CASE lang = "en" -> {"one", "twenty", "hundred", "third", "zero", "point", "and", "cows"}
      [] lang = "pt" -> {"um", "cem", "nono", "primeiro", "vige'simo", "zero", "e", "vi'rgula"}

-----------------------------------------------------------------------------
(* The digit buffer driven call by call (SpecBuffer) *)

InBounds(b) == Len(b.buffer) <= MaxBody /\ b.leading_zeroes <= MaxZeros

InitBuffer ==
    /\ BufferIdle
    /\ ScannerIdle
    /\ TextIdle
    /\ pc = "buffer"

BufPut ==
    /\ pc = "buffer"
    /\ \E d \in DigitArgs :
          LET r == put(ds, d)
          IN  /\ InBounds(r.b)
              /\ ds' = r.b
              /\ call' = [op |-> "put", digits |-> d, n |-> 0, st |-> r.st]
    /\ UNCHANGED <<input, result, tokens, fn, pc, output>>

BufPutDigitAt ==
    /\ pc = "buffer"
    /\ \E c \in ArgDigits, p \in 0..MaxShift :
          LET r == put_digit_at(ds, c, p)
          IN  /\ InBounds(r.b)
              /\ ds' = r.b
              /\ call' = [op |-> "put_digit_at", digits |-> c, n |-> p, st |-> r.st]
    /\ UNCHANGED <<input, result, tokens, fn, pc, output>>

BufPush ==
    /\ pc = "buffer"
    /\ \E d \in DigitArgs :
          LET r == push(ds, d)
          IN  /\ InBounds(r.b)
              /\ ds' = r.b
              /\ call' = [op |-> "push", digits |-> d, n |-> 0, st |-> r.st]
    /\ UNCHANGED <<input, result, tokens, fn, pc, output>>

BufFput ==
    /\ pc = "buffer"
    /\ \E d \in DigitArgs :
          LET r == fput(ds, d)
          IN  /\ InBounds(r.b)
              /\ ds' = r.b
              /\ call' = [op |-> "fput", digits |-> d, n |-> 0, st |-> r.st]
    /\ UNCHANGED <<input, result, tokens, fn, pc, output>>

BufShift ==
    /\ pc = "buffer"
    /\ \E k \in 0..MaxShift :
          LET r == shift(ds, k)
          IN  /\ InBounds(r.b)
              /\ ds' = r.b
              /\ call' = [op |-> "shift", digits |-> "", n |-> k, st |-> r.st]
    /\ UNCHANGED <<input, result, tokens, fn, pc, output>>

BufFreeze ==
    /\ pc = "buffer"
    /\ ds' = freeze(ds)
    /\ call' = [op |-> "freeze", digits |-> "", n |-> 0, st |-> Ok]
    /\ UNCHANGED <<input, result, tokens, fn, pc, output>>

BufReset ==
    /\ pc = "buffer"
    /\ ds' = reset(ds)
    /\ call' = [op |-> "reset", digits |-> "", n |-> 0, st |-> Ok]
    /\ UNCHANGED <<input, result, tokens, fn, pc, output>>

NextBuffer ==
    \/ BufPush
    \/ BufPut
    \/ BufPutDigitAt
    \/ BufFput
    \/ BufShift
    \/ BufFreeze
    \/ BufReset

SpecBuffer == InitBuffer /\ [][NextBuffer]_vars

-----------------------------------------------------------------------------
(* put(d) then shift(k) on a fresh buffer (SpecShift) *)

InitShift ==
    /\ BufferIdle
    /\ ScannerIdle
    /\ TextIdle
    /\ pc = "fresh"

ShiftPut ==
    /\ pc = "fresh"
    /\ \E d \in PutArgs :
          LET r == put(ds, d)
          IN  /\ ds' = r.b
              /\ call' = [op |-> "put", digits |-> d, n |-> 0, st |-> r.st]
    /\ pc' = "put"
    /\ UNCHANGED <<input, result, tokens, fn, output>>

\* call.digits keeps the argument of the put
ShiftShift ==
    /\ pc = "put"
    /\ call.st = Ok
    /\ \E k \in 1..MaxShift :
          LET r == shift(ds, k)
          IN  /\ ds' = r.b
              /\ call' = [call EXCEPT !.op = "shift", !.n = k, !.st = r.st]
    /\ pc' = "shifted"
    /\ UNCHANGED <<input, result, tokens, fn, output>>

NextShift == ShiftPut \/ ShiftShift

SpecShift == InitShift /\ [][NextShift]_vars

-----------------------------------------------------------------------------
(* The scanner over a token stream (Spec).  The input iterator yields any  *)
(* token of the vocabulary, or ends.                                       *)

Init ==
    /\ BufferIdle
    /\ TextIdle
    /\ tokens = <<>>
    /\ \E th \in Thresholds : fn = FindNumbers_new("en", th)
    /\ output = <<>>
    /\ pc = "scanning"

\* one turn of the loop of track_numbers: self.push(pos, token)
ScanPush ==
    /\ pc = "scanning"
    /\ Len(tokens) < MaxTokens
    /\ \E token \in Vocabulary :
          /\ fn' = FindNumbers_push(fn, Len(tokens), token)
          /\ tokens' = Append(tokens, token)
    /\ UNCHANGED <<input, result, ds, call, pc, output>>

\* the input is exhausted: self.finalize(), and track_numbers returns the tracker
ScanFinalize ==
    /\ pc = "scanning"
    /\ fn' = FindNumbers_finalize(fn)
    /\ pc' = "tracked"
    /\ UNCHANGED <<input, result, ds, call, tokens, output>>

\* replace_numbers_in_stream: tracker.replace(&mut input)
Replace ==
    /\ pc = "tracked"
    /\ output' = NumTracker_replace(fn.tracker, tokens)
    /\ pc' = "done"
    /\ UNCHANGED <<input, result, ds, call, tokens, fn>>

Next == ScanPush \/ ScanFinalize \/ Replace

Spec == Init /\ [][Next]_vars

\* find_numbers: the occurrences of a finished scan
Emitted == fn.tracker.matches

-----------------------------------------------------------------------------
(* The lazy iterator (SpecIter): find_numbers_iter over a stream, then one  *)
(* call of next after the other.  tokens is the input stream, call.n the    *)
(* number of tokens taken from it, output the occurrences yielded.          *)

\* find_numbers_iter(input, lang, threshold)
InitIter ==
    /\ ds = DigitString_new
    /\ TextIdle
    /\ tokens \in Streams(MaxTokens)
    /\ \E th \in Thresholds : fn = FindNumbers_new("en", th)
    /\ call = [op |-> "find_numbers_iter", digits |-> "", n |-> 0, st |-> Ok]
    /\ output = <<>>
    /\ pc = "iterating"

\* Iterator::next
IterNext ==
    /\ pc = "iterating"
    /\ LET r == Iterator_next(fn, tokens, call.n)
       IN  /\ fn' = r.s
           /\ call' = [op |-> "next", digits |-> "", n |-> r.pos, st |-> Ok]
           /\ output' = output \o r.item
           /\ pc' = IF r.item = None THEN "exhausted" ELSE "iterating"
    /\ UNCHANGED <<input, result, ds, tokens>>

NextIter == IterNext

SpecIter == InitIter /\ [][NextIter]_vars

-----------------------------------------------------------------------------
(* Rewriting a text twice (SpecText): a text is typed, handed to            *)
(* replace_numbers_in_text, and the result is handed to it again.  call     *)
(* keeps the first text and the threshold, input is the text of the last    *)
(* call and result what it returned.                                        *)

InitText ==
    /\ BufferIdle
    /\ ScannerIdle
    /\ TextIdle
    /\ pc = "typing"

TextType ==
    /\ pc = "typing"
    /\ \E piece \in TextPieces :
          /\ Len(input \o piece) <= MaxReplaceText
          /\ input' = input \o piece
    /\ UNCHANGED <<result, ds, call, tokens, fn, pc, output>>

\* replace_numbers_in_text(text, &English::new(), threshold)
TextReplace ==
    /\ pc = "typing"
    /\ \E th \in Thresholds :
          /\ result' = replace_numbers_in_text(input, "en", th)
          /\ call' = [op |-> "replace_numbers_in_text", digits |-> input, n |-> th, st |-> Ok]
    /\ pc' = "replaced"
    /\ UNCHANGED <<input, ds, tokens, fn, output>>

\* replace_numbers_in_text on the returned text, with the same threshold
TextReplaceAgain ==
    /\ pc = "replaced"
    /\ result.st = Ok
    /\ input' = result.text
    /\ result' = replace_numbers_in_text(result.text, "en", call.n)
    /\ pc' = "again"
    /\ UNCHANGED <<ds, call, tokens, fn, output>>

NextText == TextType \/ TextReplace \/ TextReplaceAgain

SpecText == InitText /\ [][NextText]_vars

-----------------------------------------------------------------------------
(* The strict parser on a text (SpecStrict).  The text is any concatenation *)
(* of pieces that is at most MaxText long.                                  *)

InitStrict ==
    /\ BufferIdle
    /\ ScannerIdle
    /\ TextIdle
    /\ pc = "text"

StrictType ==
    /\ pc = "text"
    /\ \E piece \in Pieces :
          /\ Len(input \o piece) <= MaxText
          /\ input' = input \o piece
    /\ UNCHANGED <<ds, call, tokens, fn, pc, output, result>>

StrictCall ==
    /\ pc = "text"
    /\ result' = text2digits(input, "en")
    /\ pc' = "returned"
    /\ UNCHANGED <<ds, call, tokens, fn, output, input>>

NextStrict == StrictType \/ StrictCall

SpecStrict == InitStrict /\ [][NextStrict]_vars

-----------------------------------------------------------------------------
(* lib.rs: get_interpreter_for, and the lookup of a language code           *)
(* (SpecLookup).  input is the code typed, result what the lookup returned. *)

\* None, or Some of the language the code stands for
get_interpreter_for(language_code) ==
    CASE language_code = "de" -> Some("German")
      [] language_code = "en" -> Some("English")
      [] language_code = "es" -> Some("Spanish")
      [] language_code = "fr" -> Some("French")
      [] language_code = "it" -> Some("Italian")
      [] language_code = "nl" -> Some("Dutch")
      [] OTHER -> None

\* the letters of the codes that are looked up
CodeLetters == {"d", "e", "n", "s", "f", "r", "i", "t", "l", "p"}

InitLookup ==
    /\ BufferIdle
    /\ ScannerIdle
    /\ TextIdle
    /\ pc = "code"

LookupType ==
    /\ pc = "code"
    /\ Len(input) < MaxCode
    /\ \E c \in CodeLetters : input' = input \o c
    /\ UNCHANGED <<ds, call, tokens, fn, pc, output, result>>

LookupCall ==
    /\ pc = "code"
    /\ result' = [st |-> "looked up", text |-> "", interpreter |-> get_interpreter_for(input)]
    /\ pc' = "returned"
    /\ UNCHANGED <<ds, call, tokens, fn, output, input>>

NextLookup == LookupType \/ LookupCall

SpecLookup == InitLookup /\ [][NextLookup]_vars

-----------------------------------------------------------------------------
(* The strict parser on groups of magnitude words (SpecGroup), in English,  *)
(* French and German.  tokens holds the words typed, input the text they    *)
(* make: German words are also written together, as one compound.          *)

GroupLanguages == {"en", "fr", "de"}

GroupWords(lang) ==
    CASE lang = "en" -> {"two", "thousand", "hundred", "hundreds"}
      [] lang = "fr" -> {"deux", "mille", "cent"}
      [] lang = "de" -> {"zwei", "tausend", "hundert"}

GroupSeparators(lang) == IF lang = "de" THEN {" ", ""} ELSE {" "}

InitGroup ==
    /\ BufferIdle
    /\ TextIdle
    /\ tokens = <<>>
    /\ output = <<>>
    /\ \E lang \in GroupLanguages : fn = FindNumbers_new(lang, 0)
    /\ pc = "text"

GroupType ==
    /\ pc = "text"
    /\ Len(tokens) < MaxGroup
    /\ \E word \in GroupWords(fn.parser.lang), sep \in GroupSeparators(fn.parser.lang) :
          /\ tokens' = Append(tokens, word)
          /\ input' = IF input = "" THEN word ELSE input \o sep \o word
    /\ UNCHANGED <<ds, call, fn, pc, output, result>>

GroupCall ==
    /\ pc = "text"
    /\ result' = text2digits(input, fn.parser.lang)
    /\ pc' = "returned"
    /\ UNCHANGED <<ds, call, tokens, fn, output, input>>

NextGroup == GroupType \/ GroupCall

SpecGroup == InitGroup /\ [][NextGroup]_vars

-----------------------------------------------------------------------------
(* An interpreter applied word by word to one buffer (SpecCompound), in     *)
(* English, French, German and Portuguese, with compounds and connectors    *)
(* among the words.  ds is the caller's buffer, tokens the words applied so *)
(* far, output what each of them returned, call the last call.             *)

CompoundLanguages == {"en", "fr", "de", "pt"}

CompoundWords(lang) ==
    CASE lang = "en" ->
            {"one", "twenty", "thousand", "twenty-one", "one-twenty", "thirty-first",
             "two-thousand", "twenty-and"}
      [] lang = "fr" ->
            {"un", "vingt", "mille", "vingt-deux", "deux-vingt", "quatre-vingt",
             "deux-mille", "vingt-et"}
      [] lang = "de" ->
            {"ein", "zwanzig", "tausend", "einundzwanzig", "hunderthundert",
             "zweihundert", "zweitausend", "zwanzigste"}
      [] lang = "pt" ->
            {"seis", "dez", "sessenta", "cem", "mil", "e", "primeiro", "zero"}

\* the word takes the compound branch of apply
IsCompound(lang, word) ==
    CASE lang = "en" -> ContainsChar(word, "-")
      [] lang = "fr" -> fr_is_compound(word)
      [] lang = "de" -> WordSplitter_is_splittable(de_patterns, de_lemmatize(word))
      [] lang = "pt" -> FALSE

\* the words of the exclusion rules and of the tens ordinals (SpecRules)
RuleLanguages == {"de", "fr", "en"}

RuleWords(lang) ==
    CASE lang = "de" -> {"ein", "eins", "zwei", "und", "zwanzig", "dreissig", "hundert",
                         "haus"}
      [] lang = "fr" -> {"dix", "un", "six", "sept", "soixante-dix", "vingt-et", "et",
                         "chat"}
      [] lang = "en" -> {"twentieth", "thirtieth", "fortieth", "fiftieth", "sixtieth",
                         "seventieth", "eightieth", "ninetieth", "one", "hundred"}

ApplyWords(mode, lang) == IF mode = "rules" THEN RuleWords(lang) ELSE CompoundWords(lang)

InitCompound ==
    /\ BufferIdle
    /\ TextIdle
    /\ tokens = <<>>
    /\ output = <<>>
    /\ \E lang \in CompoundLanguages : fn = FindNumbers_new(lang, 0)
    /\ pc = "apply"

\* lang.apply(word, &mut ds)
CompoundApply ==
    /\ pc \in {"apply", "rules"}
    /\ Len(tokens) < MaxGroup
    /\ \E word \in ApplyWords(pc, fn.parser.lang) :
          /\ tokens' = Append(tokens, word)
          /\ \E r \in {Lang_apply(fn.parser.lang, word, ds)} :
                /\ ds' = r.b
                /\ output' = Append(output, r.st)
                /\ call' = [op |-> "apply", digits |-> word, n |-> 0, st |-> r.st]
    /\ UNCHANGED <<fn, pc, input, result>>

InitRules ==
    /\ BufferIdle
    /\ TextIdle
    /\ tokens = <<>>
    /\ output = <<>>
    /\ \E lang \in RuleLanguages : fn = FindNumbers_new(lang, 0)
    /\ pc = "rules"

NextCompound == CompoundApply

SpecCompound == InitCompound /\ [][NextCompound]_vars

SpecRules == InitRules /\ [][NextCompound]_vars

-----------------------------------------------------------------------------
(* The strict parser and the replacement with threshold 0.0 on the same     *)
(* text (SpecAgree), in English and French.  The text is words separated by *)
(* single spaces; result is what text2digits returned, call.st and          *)
(* call.digits what replace_numbers_in_text returned.                       *)

AgreeLanguages == {"en", "fr"}

AgreeWords(lang) ==
    CASE lang = "en" -> {"one", "o", "zero", "hundred", "and", "twenty-one", "third"}
      [] lang = "fr" -> {"un", "neuf", "vingt", "et", "million", "cent", "ze'ro"}

InitAgree ==
    /\ BufferIdle
    /\ TextIdle
    /\ tokens = <<>>
    /\ output = <<>>
    /\ \E lang \in AgreeLanguages : fn = FindNumbers_new(lang, 0)
    /\ pc = "text"

AgreeType ==
    /\ pc = "text"
    /\ Len(tokens) < MaxGroup
    /\ \E word \in AgreeWords(fn.parser.lang) :
          /\ tokens' = Append(tokens, word)
          /\ input' = IF input = "" THEN word ELSE input \o " " \o word
    /\ UNCHANGED <<ds, call, fn, pc, output, result>>

AgreeCall ==
    /\ pc = "text"
    /\ result' = text2digits(input, fn.parser.lang)
    /\ \E r \in {replace_numbers_in_text(input, fn.parser.lang, 0)} :
          call' = [op |-> "replace_numbers_in_text", digits |-> r.text, n |-> 0, st |-> r.st]
    /\ pc' = "returned"
    /\ UNCHANGED <<ds, tokens, fn, output, input>>

NextAgree == AgreeType \/ AgreeCall

SpecAgree == InitAgree /\ [][NextAgree]_vars

-----------------------------------------------------------------------------
(* The free-position predicates asked of a buffer (SpecFree): the body is   *)
(* built by put and push, and call holds the last call; for a predicate,    *)
(* n and m are its positions and st what it returned.                       *)

\* ds.is_free(positions)
FreeIsFree ==
    /\ pc = "buffer"
    /\ \E positions \in 0..MaxShift :
          call' = [op |-> "is_free", digits |-> "", n |-> positions, m |-> 0,
                   st |-> is_free(ds, positions)]
    /\ UNCHANGED <<ds, input, result, tokens, fn, pc, output>>

\* ds.is_range_free(start_position, end_position), start_position < end_position
FreeIsRangeFree ==
    /\ pc = "buffer"
    /\ \E start_position \in 0..MaxShift, end_position \in 1..(MaxShift + 2) :
          /\ start_position < end_position
          /\ call' = [op |-> "is_range_free", digits |-> "", n |-> start_position,
                      m |-> end_position,
                      st |-> is_range_free(ds, start_position, end_position)]
    /\ UNCHANGED <<ds, input, result, tokens, fn, pc, output>>

\* ds.is_position_free(position)
FreeIsPositionFree ==
    /\ pc = "buffer"
    /\ \E position \in 0..MaxShift :
          call' = [op |-> "is_position_free", digits |-> "", n |-> position, m |-> 0,
                   st |-> is_position_free(ds, position)]
    /\ UNCHANGED <<ds, input, result, tokens, fn, pc, output>>

NextFree == BufPut \/ BufPush \/ FreeIsFree \/ FreeIsRangeFree \/ FreeIsPositionFree

SpecFree == InitBuffer /\ [][NextFree]_vars

-----------------------------------------------------------------------------
(* The parser of the scanner driven call by call (SpecParser): words are   *)
(* pushed, and a number in progress is ended, as FindNumbers does.  tokens  *)
(* holds the words pushed so far, call the last call, result what the last  *)
(* string_and_value returned.                                               *)

InitParser ==
    /\ BufferIdle
    /\ TextIdle
    /\ tokens = <<>>
    /\ output = <<>>
    /\ \E lang \in Languages : fn = FindNumbers_new(lang, 0)
    /\ pc = "parser"

\* self.parser.push(word)
ParserPush ==
    /\ pc = "parser"
    /\ Len(tokens) < MaxWords
    /\ \E word \in ParserWords(fn.parser.lang) :
          LET r == WordToDigitParser_push(fn.parser, word)
          IN  /\ fn' = [fn EXCEPT !.parser = r.p]
              /\ call' = [op |-> "push", digits |-> word, n |-> 0, st |-> r.st]
              /\ tokens' = Append(tokens, BasicToken_new(word))
    /\ UNCHANGED <<ds, pc, output, input, result>>

\* FindNumbers::number_end: self.parser.string_and_value(), which resets the
\* parser; FindNumbers calls it when the parser has a number only
ParserEnd ==
    /\ pc = "parser"
    /\ has_number(fn.parser)
    /\ LET ordinal == is_ordinal(fn.parser.int_part)
           sv == WordToDigitParser_string_and_value(fn.parser)
       IN  /\ fn' = [fn EXCEPT !.parser = sv.p]
           /\ result' = [st |-> IF sv.value = PanicValue THEN "panic" ELSE Ok,
                         text |-> sv.text, value |-> sv.value, is_ordinal |-> ordinal]
    /\ call' = [op |-> "string_and_value", digits |-> "", n |-> 0, st |-> Ok]
    /\ UNCHANGED <<ds, tokens, pc, output, input>>

NextParser == ParserPush \/ ParserEnd

SpecParser == InitParser /\ [][NextParser]_vars

-----------------------------------------------------------------------------
(* Properties of the digit buffer *)

EditOps == {"put", "put_digit_at", "push", "fput", "shift"}

Range(seq) == {seq[i] : i \in 1..Len(seq)}

\* C1 as claimed: after a successful put, put_digit_at, push, fput or shift
\* the first character of the body is never '0'.
C1_BodyNeverStartsWithZero ==
    (call.op \in EditOps /\ call.st = Ok) => ~StartsWith(ds.buffer, "0")

\* C1, amended: a successful put, put_digit_at, fput or shift whose digit
\* string does not begin with '0' (or that is put("0")) keeps a body that does
\* not begin with '0' that way; the zero of put("0") goes to the counter.
C1_EditsKeepNonzeroHead ==
    [][(/\ call'.op \in {"put", "put_digit_at", "fput", "shift"}
        /\ call'.st = Ok
        /\ (~StartsWith(call'.digits, "0") \/ (call'.op = "put" /\ call'.digits = "0"))
        /\ ~StartsWith(ds.buffer, "0"))
       => ~StartsWith(ds'.buffer, "0")]_vars

\* a shift that moved the tail "5" of 1005 one place to the left
C1_Witness ==
    call.op = "shift" /\ call.st = Ok /\ call.n = 1 /\ ds.buffer = "1050"

\* C2: once the buffer is frozen, put, put_digit_at, push, fput and shift
\* return Frozen and leave the buffer unchanged (until reset).
C2_FrozenRejectsEdits ==
    [][(ds.frozen /\ call'.op \in EditOps /\ <<ds, call>>' # <<ds, call>>)
       => (call'.st = Frozen /\ ds' = ds)]_vars

\* C3 as claimed: on a fresh buffer, put(d) for a nonzero d then shift(k),
\* k >= 1, succeeds and renders d followed by k zeros.
C3_ShiftAppendsZeros ==
    (pc = "shifted" /\ ~all_zeros(call.digits))
    => (call.st = Ok /\ to_string(ds) = call.digits \o Repeat("0", call.n))

\* C3, amended: the same for the d of at most k digits.
C3_ShiftOfShortAppendsZeros ==
    (pc = "shifted" /\ ~all_zeros(call.digits) /\ Len(call.digits) <= call.n)
    => (call.st = Ok /\ to_string(ds) = call.digits \o Repeat("0", call.n))

C3_Witness ==
    pc = "shifted" /\ call.digits = "15" /\ call.n = 3 /\ call.st = Ok
    /\ to_string(ds) = "15000"

-----------------------------------------------------------------------------
(* Properties of the scanner *)

Cands == fn.log.cands

IsEmitted(occ) == occ \in Range(Emitted)

\* a number that the lone-number rule suppresses when it stands alone
Lone(occ) == (Len(occ.text) = 1 \/ occ.is_ordinal) /\ ValueLt(occ.value, fn.threshold)

SameKind(o1, o2) == o1.is_ordinal = o2.is_ordinal

\* the tokens strictly between two successive numbers
Between(o1, o2) == {tokens[p + 1] : p \in o1.end..(o2.start - 1)}

Skipped(token) == token.text = "-" \/ is_whitespace(token.text)

Linking(token) == Lang_is_linking(fn.parser.lang, token.text)

HasAlphabetic(token) == \E i \in 1..Len(token.text) : IsAlphabetic(Char(token.text, i))

\* a token that separates two numbers: an alphabetic token that is not a
\* linking word, or a bare "."
Breaking(token) ==
    /\ ~Skipped(token)
    /\ \/ HasAlphabetic(token) /\ ~Linking(token)
       \/ Trim(token.text) = "."

Contiguous(o1, o2) == \A token \in Between(o1, o2) : ~Breaking(token)

NoContiguousNeighbour(i) ==
    /\ i > 1 => ~Contiguous(Cands[i - 1].occ, Cands[i].occ)
    /\ i < Len(Cands) => ~Contiguous(Cands[i].occ, Cands[i + 1].occ)

\* C4: a number of one character, or an ordinal, whose value is under the
\* threshold and that has no contiguous neighbouring number is never emitted.
C4_LoneNeverEmitted ==
    \A i \in 1..Len(Cands) :
        (Lone(Cands[i].occ) /\ NoContiguousNeighbour(i)) => ~IsEmitted(Cands[i].occ)

\* C5: a number whose text is longer than one character and that is no
\* ordinal, or whose value is at least the threshold, is emitted as soon as it
\* ends; with threshold 0 every number is.
C5_KeptAlwaysEmitted ==
    /\ \A i \in 1..Len(Cands) :
          LET occ == Cands[i].occ
          IN  ((Len(occ.text) > 1 /\ ~occ.is_ordinal) \/ ~ValueLt(occ.value, fn.threshold))
              => IsEmitted(occ)
    /\ fn.threshold = 0 => \A i \in 1..Len(Cands) : IsEmitted(Cands[i].occ)

\* "one point one" under threshold 10: 1.1 is under the threshold and emitted
C5_Witness ==
    /\ pc = "tracked"
    /\ fn.threshold = 10
    /\ Emitted = <<Occurence(0, 3, "1.1", "1.1", FALSE)>>

\* C6 as claimed: two successive lone numbers separated only by whitespace,
\* hyphens or linking words are both emitted.
C6_LonePairEmitted ==
    \A i \in 1..(Len(Cands) - 1) :
        LET o1 == Cands[i].occ
            o2 == Cands[i + 1].occ
        IN  (/\ Lone(o1)
             /\ Lone(o2)
             /\ \A token \in Between(o1, o2) : Skipped(token) \/ Linking(token))
            => (IsEmitted(o1) /\ IsEmitted(o2))

\* C6, amended: the same for two lone numbers of the same kind (both
\* cardinal or both ordinal).
C6_LonePairOfSameKindEmitted ==
    \A i \in 1..(Len(Cands) - 1) :
        LET o1 == Cands[i].occ
            o2 == Cands[i + 1].occ
        IN  (/\ Lone(o1)
             /\ Lone(o2)
             /\ SameKind(o1, o2)
             /\ \A token \in Between(o1, o2) : Skipped(token) \/ Linking(token))
            => (IsEmitted(o1) /\ IsEmitted(o2))

\* "one uh one" under threshold 10
C6_Witness ==
    /\ pc = "tracked"
    /\ fn.threshold = 10
    /\ Len(tokens) = 3
    /\ tokens[2].text = "uh"
    /\ Emitted = <<Occurence(0, 1, "1", "1", FALSE), Occurence(2, 3, "1", "1", FALSE)>>

\* C7: between two successive numbers a breaking token (alphabetic and not
\* linking, or a bare ".") drops the first one when it was held; when no token
\* between them is breaking, the second of two numbers of the same kind is
\* emitted as contiguous, and the first with it.
C7_BreakersDecideContiguity ==
    \A i \in 1..(Len(Cands) - 1) :
        LET c1 == Cands[i]
            c2 == Cands[i + 1]
        IN  /\ (c1.held /\ ~Contiguous(c1.occ, c2.occ)) => ~IsEmitted(c1.occ)
            /\ (Contiguous(c1.occ, c2.occ) /\ SameKind(c1.occ, c2.occ))
               => (IsEmitted(c1.occ) /\ IsEmitted(c2.occ))

\* C8: an occurrence emitted under the threshold of the run is emitted, with
\* the same range and text, under every lower threshold.
C8_ThresholdMonotone ==
    pc = "tracked" =>
        \A t2 \in Thresholds :
            t2 <= fn.threshold =>
                \A occ \in Range(Emitted) :
                    \E o2 \in Range(find_numbers(tokens, fn.parser.lang, t2)) :
                        o2.start = occ.start /\ o2.end = occ.end /\ o2.text = occ.text

\* a stream with more occurrences under threshold 0 than under threshold 10
C8_Witness ==
    /\ pc = "tracked"
    /\ fn.threshold = 10
    /\ Len(Emitted) = 1
    /\ Len(find_numbers(tokens, fn.parser.lang, 0)) = 2

\* the stream with every emitted range replaced by one token, built from left
\* to right: pos is the next position of the input, k the next occurrence
RECURSIVE Rebuilt(_, _, _, _)
Rebuilt(toks, occs, pos, k) ==
    IF k <= Len(occs) /\ occs[k].start = pos /\ occs[k].end > pos
    THEN <<BasicToken_replace(occs[k].text)>> \o Rebuilt(toks, occs, occs[k].end, k + 1)
    ELSE IF pos >= Len(toks) THEN <<>>
    ELSE <<toks[pos + 1]>> \o Rebuilt(toks, occs, pos + 1, k)

\* C9: replace_numbers_in_stream returns the input with the range of each
\* emitted occurrence replaced by one token carrying its text, every other
\* token unchanged and in order (so the text outside the ranges is unchanged).
C9_ReplaceOnlyRanges ==
    pc = "done" =>
        /\ output = Rebuilt(tokens, Emitted, 0, 1)
        /\ Len(output) =
              Len(tokens) - Cardinality({p \in 0..(Len(tokens) - 1) :
                                            \E occ \in Range(Emitted) :
                                                occ.start <= p /\ p < occ.end})
              + Len(Emitted)

\* "one hundred hundred": 100 over two tokens, then 100
C9_Witness ==
    /\ pc = "done"
    /\ Len(tokens) = 3
    /\ Len(Emitted) = 2
    /\ Emitted[1].end = 2
    /\ join(output) = "100100"

\* C10: the range of every emitted occurrence starts at the first token the
\* parser accepted for the number and ends one past the last one; what
\* follows the last accepted token (whitespace, a connector, a decimal
\* separator with no decimal after it) is outside the range.
C10_RangeIsFirstToLastAccepted ==
    \A occ \in Range(Emitted) :
        \E i \in 1..Len(Cands) :
            LET c == Cands[i]
            IN  /\ c.occ = occ
                /\ c.oks # <<>>
                /\ occ.start = Head(c.oks)
                /\ occ.end = c.oks[Len(c.oks)] + 1
                /\ 0 <= occ.start /\ occ.start < occ.end /\ occ.end <= Len(tokens)

\* "twelve point cows": the separator is left out of the range of 12
C10_Witness ==
    /\ pc = "tracked"
    /\ Len(tokens) = 3
    /\ tokens[2].text = "point"
    /\ tokens[3].text = "cows"
    /\ Emitted = <<Occurence(0, 1, "12", "12", FALSE)>>

-----------------------------------------------------------------------------
(* Pauses *)

\* the step consumes a word that comes after a long pause while a number is
\* in progress
PauseStep ==
    /\ Len(tokens') = Len(tokens) + 1
    /\ LET token == tokens'[Len(tokens')]
       IN  /\ token.pause
           /\ ~token.nan
           /\ ~Skipped(token)
           /\ fn.previous # None
           /\ has_number(fn.parser)

\* C11: when a token comes after a long pause while a number is in progress,
\* the number ends before that token (a candidate is added whose range ends at
\* or before the token, so no occurrence holds both the previous token and
\* this one), and the token is tried as the first word of a new number: the
\* parser is what a new parser is after that word, and the word, when it is
\* accepted, is the first accepted token of the next number.
C11_PauseEndsNumber ==
    [][PauseStep =>
        LET token == tokens'[Len(tokens')]
            pos == Len(tokens)
            first == WordToDigitParser_push(WordToDigitParser_new(fn.parser.lang),
                                            token.lowercase)
            cands == fn'.log.cands
        IN  /\ Len(cands) = Len(fn.log.cands) + 1
            /\ cands[Len(cands)].occ.start = fn.tracker.match_start
            /\ cands[Len(cands)].occ.end = fn.tracker.match_end
            /\ cands[Len(cands)].occ.end <= pos
            /\ fn'.parser = first.p
            /\ fn'.log.oks = (IF first.st = Ok THEN <<pos>> ELSE <<>>)
            /\ first.st = Ok => (fn'.tracker.match_start = pos
                                 /\ fn'.tracker.match_end = pos + 1)
            /\ \A i \in 1..Len(cands) :
                  ~(cands[i].occ.start < pos /\ pos < cands[i].occ.end)]_vars

\* "hundred" then, after a pause, "two": 100 and 2, not 102
C11_Witness ==
    /\ pc = "tracked"
    /\ Len(tokens) = 2
    /\ tokens[1].text = "hundred"
    /\ tokens[2].text = "two" /\ tokens[2].pause
    /\ Emitted = <<Occurence(0, 1, "100", "100", FALSE), Occurence(1, 2, "2", "2", FALSE)>>

-----------------------------------------------------------------------------
(* Properties of the strict parser *)

Errors == {Overlap, NaN, Incomplete, Frozen}

\* the words of the text handed to text2digits
Words == split_whitespace(to_lowercase(input))

\* the results [st, b] of applying the words one after the other to one buffer
RECURSIVE ApplyTrace(_, _, _)
ApplyTrace(lang, group, b) ==
    IF group = <<>> THEN <<>>
    ELSE The({<<r>> \o ApplyTrace(lang, Tail(group), r.b)
              : r \in {Lang_apply(lang, Head(group), b)}})

\* the digits of a buffer followed by the suffix of its marker
FormattedText(b) == to_string(b) \o b.marker.suffix

\* C12: text2digits returns the first error other than Incomplete that a word
\* of the text raises; when there is none, Incomplete when the last word
\* returned Incomplete, and the formatted digit text otherwise.
C12_StrictResult ==
    pc = "returned" =>
        LET trace == ApplyTrace("en", Words, DigitString_new)
            hard == {i \in 1..Len(trace) : trace[i].st \notin {Ok, Incomplete}}
        IN  IF hard # {}
            THEN result.st = trace[CHOOSE i \in hard : \A j \in hard : i <= j].st
            ELSE IF trace # <<>> /\ trace[Len(trace)].st = Incomplete
            THEN result.st = Incomplete
            ELSE /\ result.st = Ok
                 /\ result.text = FormattedText(IF trace = <<>> THEN DigitString_new
                                                ELSE trace[Len(trace)].b)

\* C13: text2digits returns a digit text or one of the four errors for every
\* text, the empty text and the texts of whitespace included; it never panics.
C13_StrictNeverPanics ==
    pc = "returned" => (result.st \in Errors \/ (result.st = Ok /\ result # Panicked))

-----------------------------------------------------------------------------
(* Ordinals and freezing (SpecParser) *)

IntPart == fn.parser.int_part

\* the last step pushed a word to the integer buffer (no decimal separator
\* had been consumed before it)
PushedToInt == ParserPush /\ fn.parser.dec_separator = None

-----------------------------------------------------------------------------
(* Reset (SpecParser) *)

\* C15: after reset() a digit buffer is indistinguishable from a freshly
\* created one (empty body, no leading zeros, not frozen, no marker, flags 0),
\* so the parser that string_and_value has reset equals a new parser, and the
\* next word pushed to it is answered as a new parser answers it
C15_ResetIsFresh ==
    [][ /\ ParserEnd
            => /\ fn'.parser.int_part = DigitString_new
               /\ fn'.parser.dec_part = DigitString_new
               /\ fn'.parser = WordToDigitParser_new(fn.parser.lang)
        /\ ParserPush /\ call.op = "string_and_value"
            => /\ call'.st = WordToDigitParser_push(WordToDigitParser_new(fn.parser.lang),
                                                    call'.digits).st
               /\ to_string(fn'.parser.int_part)
                    = to_string(WordToDigitParser_push(WordToDigitParser_new(fn.parser.lang),
                                                       call'.digits).p.int_part)
      ]_vars

-----------------------------------------------------------------------------
(* Ordinal suffixes (SpecParser) *)

\* C16: the formatted text of a number whose integer buffer took an ordinal
\* word ends in the suffix the interpreter declares for that word; every
\* number reported as ordinal has a text ending in an ordinal suffix
C16_OrdinalTextEndsInSuffix ==
    [][ ParserEnd /\ is_ordinal(IntPart)
            => /\ result'.is_ordinal
               /\ IntPart.marker.suffix # ""
               /\ EndsWith(result'.text, IntPart.marker.suffix)
      ]_vars

-----------------------------------------------------------------------------
(* The lazy iterator against the eager vector (SpecIter) *)

IsPrefix(s, t) == Len(s) <= Len(t) /\ s = SubSeq(t, 1, Len(s))

\* C17: the occurrences next() has yielded so far are the first occurrences
\* of find_numbers on the same stream, language and threshold, in the same
\* order; when next() has returned None they are all of them
C17_LazyEqualsEager ==
    LET eager == find_numbers(tokens, fn.parser.lang, fn.threshold)
    IN  /\ IsPrefix(output, eager)
        /\ pc = "exhausted" => output = eager

\* the iterator is exhausted after yielding two occurrences that entered the
\* queue of the tracker in one call of number_end
C17_Witness ==
    /\ pc = "exhausted"
    /\ Len(output) = 2
    /\ Len(tokens) = 2
    /\ fn.threshold = 10
    /\ output = find_numbers(tokens, fn.parser.lang, fn.threshold)

-----------------------------------------------------------------------------
(* Rewriting twice (SpecText) *)

\* a word the interpreter knows: apply or apply_decimal answers it with
\* something else than NaN on a new buffer, or it is the decimal separator
IsNumberWord(lang, word) ==
    \/ Lang_apply(lang, word, DigitString_new).st # NaN
    \/ Lang_apply_decimal(lang, word, DigitString_new).st # NaN
    \/ Lang_check_decimal_separator(lang, word) # None

NoNumberWords(lang, txt) ==
    \A i \in 1..Len(tokenize(txt)) : ~IsNumberWord(lang, tokenize(txt)[i].lowercase)

\* C18: when the text returned by replace_numbers_in_text holds no number
\* word of the language, replace_numbers_in_text (same language, same
\* threshold) returns that text unchanged: the digits are not parsed again
C18_ReplaceIdempotent ==
    pc = "again" /\ NoNumberWords("en", input) => result = [st |-> Ok, text |-> input]

\* "one , third" became "1 , 3rd", which the second call left alone
C18_Witness ==
    /\ pc = "again"
    /\ call.digits = "one , third"
    /\ call.n = 0
    /\ input = "1 , 3rd"
    /\ NoNumberWords("en", input)
    /\ result.text = "1 , 3rd"

-----------------------------------------------------------------------------
(* Decimal numbers (SpecParser) *)

\* the separator a language writes between integer and decimal digits
WrittenSeparator(lang) == IF lang = "en" THEN "." ELSE ","

\* the parser accepts (Ok or Incomplete) each of the words, one after the
\* other, from the state p on
RECURSIVE RunAccepted(_, _, _)
RunAccepted(p, toks, i) ==
    IF i > Len(toks) THEN TRUE
    ELSE The({r.st \in {Ok, Incomplete} /\ RunAccepted(r.p, toks, i + 1)
              : r \in {WordToDigitParser_push(p, toks[i].lowercase)}})

-----------------------------------------------------------------------------
(* Zeros (SpecParser) *)

-----------------------------------------------------------------------------
(* C21 *)

\* the power of ten a magnitude word multiplies by, 0 for any other word
Magnitude(word) ==
    IF word \in {"thousand", "mille", "tausend"} THEN 3
    ELSE IF word \in {"hundred", "hundreds", "cent", "hundert"} THEN 2
    ELSE 0

\* some magnitude word comes on a number that already carries its magnitude:
\* a second thousand, or a second hundred within the same group of three
RepeatsMagnitude(ws) ==
    \E i, j \in 1..Len(ws) :
        /\ i < j
        /\ Magnitude(ws[i]) = Magnitude(ws[j])
        /\ Magnitude(ws[i]) # 0
        /\ \A k \in (i + 1)..(j - 1) : Magnitude(ws[k]) <= Magnitude(ws[i])

\* C21: in strict mode a text in which a magnitude word is applied to a
\* number that already carries that magnitude is rejected with an error.
C21_RepeatedMagnitudeRejected ==
    (pc = "returned" /\ RepeatsMagnitude(tokens)) => result.st \notin {Ok, "panic"}

C21_Witness ==
    /\ pc = "returned"
    /\ input = "tausendtausendzweihundert"
    /\ result.st \notin {Ok, "panic"}


-----------------------------------------------------------------------------
(* C22 *)

\* C22: the parts of a compound word are interpreted on a buffer of their
\* own: when apply fails on a compound word, whichever part failed, the
\* caller's buffer is exactly as it was before the call.
C22_CompoundAllOrNothing ==
    [][(call'.op = "apply" /\ IsCompound(fn.parser.lang, call'.digits) /\ call'.st # Ok)
          => ds' = ds]_vars

\* a compound whose second part fails, applied to a buffer that holds a number
C22_Witness ==
    /\ call.op = "apply"
    /\ call.digits \in {"one-twenty", "deux-vingt", "hunderthundert"}
    /\ call.st \notin {Ok, Incomplete}
    /\ ds.buffer # ""


-----------------------------------------------------------------------------
(* C23 *)

\* the cardinal units, teens and tens words among the Portuguese words
pt_SmallWords == {"seis", "dez", "sessenta"}

\* the current group of three digits of the buffer holds a nonzero digit
NonzeroInGroup(b) == b.buffer # "" /\ ~all_zeros(peek(b, 3))

\* the word of the last call on this buffer that was not rejected
RECURSIVE LastNotRejected(_, _, _)
LastNotRejected(ws, sts, k) ==
    IF k = 0 THEN ""
    ELSE IF sts[k] \in {Ok, Incomplete} THEN ws[k]
    ELSE LastNotRejected(ws, sts, k - 1)

\* C23: in Portuguese "e" returns Incomplete only on a buffer of at least two
\* digits that is not in the multiplier-only phase, and a cardinal units,
\* teens or tens word is accepted on a number with a nonzero digit in its
\* current group only when the last word accepted before it is "e".
C23_ConjunctionGatesSmallWords ==
    [][(fn.parser.lang = "pt" /\ call'.op = "apply")
          => /\ (call'.digits = "e" /\ call'.st = Incomplete)
                    => (len(ds) >= 2 /\ ~pt_contains(ds.flags, pt_ONLY_MULTIPLIERS))
             /\ (call'.digits \in pt_SmallWords /\ call'.st = Ok /\ NonzeroInGroup(ds))
                    => LastNotRejected(tokens, output, Len(tokens)) = "e"]_vars

\* "sessenta e seis" is 66, and "seis" right after "sessenta" is rejected
C23_Witness ==
    /\ fn.parser.lang = "pt"
    /\ Len(tokens) = 4
    /\ SubSeq(tokens, 1, 4) = <<"sessenta", "seis", "e", "seis">>
    /\ output = <<Ok, NaN, Incomplete, Ok>>
    /\ ds.buffer = "66"


-----------------------------------------------------------------------------
(* C24 *)

IsoCodes == {"de", "en", "es", "fr", "it", "nl", "pt"}

\* C24: get_interpreter_for returns an interpreter for each of the codes
\* "de", "en", "es", "fr", "it", "nl" and "pt", and none for any other string.
C24_InterpreterForIsoCodes ==
    pc = "returned" => (result.interpreter # None <=> input \in IsoCodes)


-----------------------------------------------------------------------------
(* C25 *)

\* C25: whenever put, put_digit_at, fput or shift returns an error, the body,
\* the leading-zero count, the frozen flag and the marker of the buffer are
\* what they were before the call.
C25_FailedEditChangesNothing ==
    [][(call'.op \in {"put", "put_digit_at", "fput", "shift"} /\ call'.st # Ok)
          => /\ ds'.buffer = ds.buffer
             /\ ds'.leading_zeroes = ds.leading_zeroes
             /\ ds'.frozen = ds.frozen
             /\ ds'.marker = ds.marker]_vars

\* the same of put, put_digit_at and fput alone
C25_FailedPutChangesNothing ==
    [][(call'.op \in {"put", "put_digit_at", "fput"} /\ call'.st # Ok)
          => /\ ds'.buffer = ds.buffer
             /\ ds'.leading_zeroes = ds.leading_zeroes
             /\ ds'.frozen = ds.frozen
             /\ ds'.marker = ds.marker]_vars


-----------------------------------------------------------------------------
(* C26 *)

\* the words of the tokens at positions start .. end - 1 (the first token is
\* at position 0), separated by spaces: white space and "-" tokens are not
\* words
RECURSIVE WordsInRange(_, _, _)
WordsInRange(toks, start, end) ==
    IF start >= end THEN ""
    ELSE The({IF toks[start + 1].text = "-" \/ is_whitespace(toks[start + 1].text) THEN rest
              ELSE IF rest = "" THEN toks[start + 1].lowercase
              ELSE toks[start + 1].lowercase \o " " \o rest
              : rest \in {WordsInRange(toks, start + 1, end)}})

\* C26: the text of every emitted occurrence without a decimal part is what
\* the strict parser returns on the words of the tokens in [start, end): the
\* token whose failure ended the number, and the tokens before start, leave
\* no trace in it.
C26_OccurrenceIsStrictResult ==
    pc \in {"tracked", "done"} =>
        \A i \in 1..Len(Emitted) :
            ~ContainsChar(Emitted[i].text, ".") =>
                text2digits(WordsInRange(tokens, Emitted[i].start, Emitted[i].end), "en")
                    = [st |-> Ok, text |-> Emitted[i].text]


-----------------------------------------------------------------------------
(* C27 *)

\* C27: whenever text2digits accepts a text and returns d,
\* replace_numbers_in_text with threshold 0.0 returns exactly d on that text.
C27_ReplaceAgreesWithStrict ==
    (pc = "returned" /\ result.st = Ok) => (call.st = Ok /\ call.digits = result.text)


\* the annotation pre-pass marks no token of the text as not a number part
NoTokenMarked(txt, lang) ==
    \A t \in Range(Lang_basic_annotate(lang, tokenize(txt))) : ~t.nan

\* C27, amended: whenever text2digits accepts a text and returns d, and the
\* annotation pre-pass marks none of its tokens, replace_numbers_in_text with
\* threshold 0.0 returns exactly d on that text.
C27_ReplaceAgreesWhenUnmarked ==
    (pc = "returned" /\ result.st = Ok /\ NoTokenMarked(input, fn.parser.lang))
        => (call.st = Ok /\ call.digits = result.text)

\* an "o" next to a number word is left unmarked, and both entry points agree
C27_Witness ==
    /\ pc = "returned"
    /\ input = "o one"
    /\ result = [st |-> Ok, text |-> "01"]
    /\ call.digits = "01"


-----------------------------------------------------------------------------
(* C28 *)

\* start < end, within the n tokens read so far
WellFormedRange(occ, n) == 0 <= occ.start /\ occ.start < occ.end /\ occ.end <= n

\* C28: at every moment of a scan the occurrences emitted lie within the
\* tokens read, each with start < end, in increasing order and without
\* overlap (each starts at or after the end of the one before), those brought
\* back from the held slot included; the tracker holds at most one candidate,
\* and that one lies after every emitted occurrence.
C28_OccurrencesOrdered ==
    LET m == fn.tracker.matches
        h == fn.tracker.on_hold
    IN  /\ \A i \in 1..Len(m) : WellFormedRange(m[i], Len(tokens))
        /\ \A i \in 1..(Len(m) - 1) : m[i].end <= m[i + 1].start
        /\ Len(h) <= 1
        /\ h # None =>
              /\ WellFormedRange(h[1], Len(tokens))
              /\ m # <<>> => m[Len(m)].end <= h[1].start

\* "one one one" under threshold 10: the first number was held and came back
C28_Witness ==
    /\ pc = "tracked"
    /\ fn.threshold = 10
    /\ Len(tokens) = 3
    /\ \A i \in 1..3 : tokens[i].text = "one"
    /\ Len(fn.log.cands) = 3
    /\ fn.log.cands[1].held
    /\ Len(Emitted) = 3
    /\ Emitted[1].start = 0


-----------------------------------------------------------------------------
(* C29 *)

\* the step pushes a word that the parser, holding a number, rejects (the
\* word itself, or the "," that stands for the pause before it)
PushFailsOnNumber(s, token) ==
    /\ ~(token.text = "-" \/ is_whitespace(token.text))
    /\ ~token.nan
    /\ has_number(s.parser)
    /\ WordToDigitParser_push(s.parser,
                              IF s.previous # None /\ nt_separated(token, s.previous[1])
                              THEN "," ELSE token.lowercase).st \notin {Ok, Incomplete}

-----------------------------------------------------------------------------
(* C30 *)

\* position pos (the first token is at 0) lies in the range of occ
InRange(pos, occ) == occ.start <= pos /\ pos < occ.end

\* the occurrences the tracker knows: the emitted ones and the held one
Tracked(t) == Range(t.matches) \cup Range(t.on_hold)

\* C30: a token flagged not-a-number-part is never applied to the parser and
\* lies in no occurrence; when it is pushed the number in progress ends, no
\* number is in progress after it, and it breaks the sequence: the number
\* before it is contiguous to none after it.
C30_FlaggedTokenStaysOutside ==
    [][/\ \A i \in 1..Len(tokens') :
              tokens'[i].nan => \A occ \in Tracked(fn'.tracker) : ~InRange(i - 1, occ)
       /\ (Len(tokens') = Len(tokens) + 1 /\ tokens'[Len(tokens')].nan)
              => /\ ~has_number(fn'.parser)
                 /\ fn'.log.oks = <<>>
                 /\ fn'.tracker.match_start = fn'.tracker.match_end
                 /\ fn'.tracker.last_contiguous_match = "None"
                 /\ IF has_number(fn.parser)
                    THEN /\ Len(fn'.log.cands) = Len(fn.log.cands) + 1
                         /\ fn'.log.cands[Len(fn'.log.cands)].oks = fn.log.oks
                    ELSE /\ fn'.parser = fn.parser
                         /\ fn'.log.cands = fn.log.cands]_vars

\* "one o one": the flagged "o" ended the first number and is in none
C30_Witness ==
    /\ pc = "tracked"
    /\ fn.threshold = 0
    /\ Len(tokens) = 3
    /\ tokens[1].text = "one"
    /\ tokens[2].nan
    /\ tokens[3].text = "one"
    /\ Emitted = <<Occurence(0, 1, "1", "1", FALSE), Occurence(2, 3, "1", "1", FALSE)>>


-----------------------------------------------------------------------------
(* C31 *)

\* the token is a decimal-separator word of the language
IsSeparatorWord(lang, token) == Lang_check_decimal_separator(lang, token.lowercase) # None

\* how many of the tokens at positions start .. end - 1 are separator words
RECURSIVE SeparatorsInRange(_, _, _, _)
SeparatorsInRange(lang, toks, start, end) ==
    IF start >= end THEN 0
    ELSE (IF IsSeparatorWord(lang, toks[start + 1]) THEN 1 ELSE 0)
         + SeparatorsInRange(lang, toks, start + 1, end)

\* how many times the character c occurs in s
RECURSIVE CountChar(_, _)
CountChar(s, c) ==
    IF s = "" THEN 0
    ELSE (IF Char(s, 1) = c THEN 1 ELSE 0) + CountChar(SubSeq(s, 2, Len(s)), c)

\* C31: a decimal-separator word is taken into a number only when the integer
\* part is not empty and the number has no separator yet.  No occurrence
\* starts with a separator word, none holds two separators, and a separator
\* word pushed while the integer part is empty is a word outside any number:
\* the parser stores no separator and stays empty, and the word breaks the
\* sequence.
C31_SeparatorNeedsIntegerPart ==
    [][/\ \A occ \in Tracked(fn'.tracker) :
              /\ ~IsSeparatorWord(fn.parser.lang, tokens'[occ.start + 1])
              /\ SeparatorsInRange(fn.parser.lang, tokens', occ.start, occ.end) <= 1
              /\ CountChar(occ.text, ".") <= 1
       /\ fn'.parser.dec_separator # None => has_number(fn'.parser)
       /\ (/\ Len(tokens') = Len(tokens) + 1
           /\ IsSeparatorWord(fn.parser.lang, tokens'[Len(tokens')])
           /\ ~tokens'[Len(tokens')].nan
           /\ ~has_number(fn.parser))
              => /\ fn'.parser = fn.parser
                 /\ fn'.log.oks = <<>>
                 /\ fn'.tracker.last_contiguous_match = "None"]_vars

\* "one point one" is the single number 1.1, separator included
C31_Witness ==
    /\ pc = "tracked"
    /\ Len(tokens) = 3
    /\ tokens[1].text = "one"
    /\ tokens[2].text = "point"
    /\ tokens[3].text = "one"
    /\ Len(Emitted) = 1
    /\ Emitted[1].text = "1.1"
    /\ Emitted[1].start = 0
    /\ Emitted[1].end = 3


-----------------------------------------------------------------------------
(* C32 *)

\* position p, counted from the right and from 0, is outside the body or
\* holds '0'
PositionIsFree(b, p) ==
    p >= Len(b.buffer) \/ Char(b.buffer, Len(b.buffer) - p) = "0"

\* C32: is_free, is_range_free and is_position_free return true exactly when
\* every position they are asked about is outside the body or holds '0',
\* whatever the buffer, the empty one included; they never panic.
C32_FreePredicates ==
    /\ call.op = "is_free" =>
          call.st = (\A p \in 0..(call.n - 1) : PositionIsFree(ds, p))
    /\ call.op = "is_range_free" =>
          call.st = (\A p \in call.n..call.m : PositionIsFree(ds, p))
    /\ call.op = "is_position_free" =>
          call.st = [panic |-> FALSE, free |-> PositionIsFree(ds, call.n)]

\* the same of is_free and is_range_free alone
C32_FreeAndRangeFree ==
    /\ call.op = "is_free" =>
          call.st = (\A p \in 0..(call.n - 1) : PositionIsFree(ds, p))
    /\ call.op = "is_range_free" =>
          call.st = (\A p \in call.n..call.m : PositionIsFree(ds, p))

\* is_position_free answers as claimed on every body that is not empty
C32_PositionFreeOnBody ==
    (call.op = "is_position_free" /\ ds.buffer # "") =>
        call.st = [panic |-> FALSE, free |-> PositionIsFree(ds, call.n)]


-----------------------------------------------------------------------------
(* C33 *)

\* C33: a successful put, put_digit_at or shift never lowers the number the
\* body reads as.
C33_EditsNeverLowerValue ==
    [][(call'.op \in {"put", "put_digit_at", "shift"} /\ call'.st = Ok)
          => ToNat(ds'.buffer) >= ToNat(ds.buffer)]_vars


\* a shift that moved the last digit of a longer body one place to the left
C33_Witness ==
    /\ call.op = "shift"
    /\ call.n = 1
    /\ call.st = Ok
    /\ ds.buffer = "1050"


-----------------------------------------------------------------------------
(* C34 *)

\* positions 3 to 5 of the buffer are outside the body or hold '0'
ThousandsFree(b) == \A p \in 3..5 : PositionIsFree(b, p)

\* C34: a compound word whose own value has 4 to 6 digits is merged into the
\* buffer only if positions 3 to 5 of the buffer are free; when they are not,
\* apply returns Overlap and leaves the buffer as it was, and the compound is
\* accepted on an empty buffer, where it starts a new number.
C34_CompoundNeedsFreeThousands ==
    [][(/\ call'.op = "apply"
        /\ IsCompound(fn.parser.lang, call'.digits)
        /\ Lang_apply(fn.parser.lang, call'.digits, DigitString_new).st = Ok
        /\ len(Lang_apply(fn.parser.lang, call'.digits, DigitString_new).b) \in 4..6)
          => /\ call'.st = Ok => ThousandsFree(ds)
             /\ ~ThousandsFree(ds) => (call'.st = Overlap /\ ds' = ds)]_vars

\* "twenty thousand two-thousand": put alone would have made 22000
C34_Witness ==
    /\ tokens = <<"twenty", "thousand", "two-thousand">>
    /\ output = <<Ok, Ok, Overlap>>
    /\ ds.buffer = "20000"


-----------------------------------------------------------------------------
(* C35 *)

de_unit_words == {"ein", "eins", "zwei"}

de_tens_words == {"zwanzig", "dreissig"}

\* every word so far was accepted or was a connector: the buffer is the one
\* exec_group or the scanner would still be building (both drop the buffer
\* on any other error)
GroupRun == \A i \in 1..Len(output) : output[i] \in {Ok, Incomplete}

\* index of the last accepted word, 0 when there is none
LastAccepted ==
    IF \E i \in 1..Len(output) : output[i] = Ok
    THEN CHOOSE i \in 1..Len(output) :
            output[i] = Ok /\ \A j \in (i + 1)..Len(output) : output[j] # Ok
    ELSE 0

\* C35: in German, while a number is being built, a tens word applied
\* directly after an accepted unit word is rejected and leaves the digits as
\* they were ("eins zwanzig" is never 21); a tens word is accepted on a
\* number whose last accepted word is a unit word only if "und" came in
\* between.
C35_TensAfterUnitNeedsUnd ==
    [][(/\ call'.op = "apply"
        /\ fn.parser.lang = "de"
        /\ call'.digits \in de_tens_words
        /\ GroupRun
        /\ LastAccepted > 0
        /\ tokens[LastAccepted] \in de_unit_words)
          => /\ LastAccepted = Len(tokens) =>
                    (call'.st \notin {Ok, Incomplete} /\ ds'.buffer = ds.buffer)
             /\ call'.st = Ok =>
                    \E k \in (LastAccepted + 1)..Len(tokens) : tokens[k] = "und"
             /\ tokens' = <<"eins", "zwanzig">> => ds'.buffer # "21"]_vars

\* "ein zwanzig": the tens word is refused and the buffer still reads 1
C35_Witness ==
    /\ fn.parser.lang = "de"
    /\ tokens = <<"ein", "zwanzig">>
    /\ output = <<Ok, NaN>>
    /\ ds.buffer = "1"


\* "ein und zwanzig" is read as 21
C35_UndReached ==
    /\ fn.parser.lang = "de"
    /\ tokens = <<"ein", "und", "zwanzig">>
    /\ output = <<Ok, Incomplete, Ok>>
    /\ ds.buffer = "21"


-----------------------------------------------------------------------------
(* C36 *)

fr_dix_words == {"dix", "soixante-dix"}

fr_un_six_words == {"un", "six"}

\* the word w is refused on b only because of the flags b carries
RestrictedBy(b, w) ==
    Lang_apply("fr", w, b).st # Lang_apply("fr", w, [b EXCEPT !.flags = 0]).st

\* a word of un...six applied directly after an accepted "dix" (alone or as
\* the last part of a compound) is rejected and leaves the digits as they were
DixBlocksNext ==
    (/\ call'.digits \in fr_un_six_words
     /\ Len(tokens) >= 1
     /\ tokens[Len(tokens)] \in fr_dix_words
     /\ output[Len(output)] = Ok)
       => (call'.st \notin {Ok, Incomplete} /\ ds'.buffer = ds.buffer)

\* C36: in French, the words un...six are rejected as the word next to an
\* accepted "dix", so "dix un" is never 11; the restriction lasts for exactly
\* one following word: once a word other than "dix" has been applied,
\* accepted or not, no word of un...six is refused on account of "dix".
C36_DixRestrictsOneWord ==
    [][(call'.op = "apply" /\ fn.parser.lang = "fr")
          => /\ DixBlocksNext
             /\ tokens' = <<"dix", "un">> => ds'.buffer # "11"
             /\ call'.digits \notin fr_dix_words => ~RestrictedBy(ds', "six")]_vars

\* the same with the restriction only required to go at an accepted word or
\* at a rejected word that is not a compound
C36_DixRestrictsUntilApplied ==
    [][(call'.op = "apply" /\ fn.parser.lang = "fr")
          => /\ DixBlocksNext
             /\ tokens' = <<"dix", "un">> => ds'.buffer # "11"
             /\ (call'.digits \notin fr_dix_words
                 /\ (call'.st = Ok \/ ~fr_is_compound(call'.digits)))
                   => ~RestrictedBy(ds', "six")]_vars

\* "dix vingt-et": the compound is Incomplete and "six" is still restricted
C36_StillRestricted ==
    /\ fn.parser.lang = "fr"
    /\ tokens = <<"dix", "vingt-et">>
    /\ output = <<Ok, Incomplete>>
    /\ RestrictedBy(ds, "six")


-----------------------------------------------------------------------------
(* C37 *)

\* the word applies as a number on a buffer of its own
fr_is_number_word(word) == fr_apply(word, DigitString_new).st = Ok

\* the decision for the j-th true word, a "neuf", from its neighbours alone:
\* an article two or three true words before it, and the true words next to
\* it on both sides not number words (and the one before not "nume'ro")
NeufIsAdjective(toks, tw, j) ==
    LET word(i) == toks[tw[i]].lowercase
        article(i) == word(i) \in {"un", "le", "du", "l'"}
    IN  /\ j >= 3
        /\ article(j - 2) \/ (j > 3 /\ article(j - 3))
        /\ word(j - 1) # "nume'ro"
        /\ ~fr_is_number_word(word(j - 1))
        /\ ~fr_is_number_word(IF j + 1 <= Len(tw) THEN word(j + 1) ELSE "")

\* every "neuf" of the text is marked exactly when its neighbours say so
NeufMarkedLocally(txt) ==
    LET toks == tokenize(txt)
        tw == fr_true_words(toks)
        ann == fr_basic_annotate(toks)
    IN  \A j \in 1..Len(tw) :
           toks[tw[j]].lowercase = "neuf" =>
              (ann[tw[j]].nan <=> NeufIsAdjective(toks, tw, j))

NeufCount(txt) ==
    Cardinality({i \in 1..Len(tokenize(txt)) : tokenize(txt)[i].lowercase = "neuf"})

\* C37: the French pre-pass marks a "neuf" as not-a-number-part exactly when
\* an article-like word comes before it and the words next to it are not
\* number words; the decision is made from the neighbouring tokens alone,
\* whatever came earlier in the stream, so a "neuf" next to a number word is
\* never marked.
C37_NeufDecisionIsLocal ==
    (pc = "returned" /\ fn.parser.lang = "fr") => NeufMarkedLocally(input)

\* the same of the texts that hold one "neuf"
C37_LoneNeufDecisionIsLocal ==
    (pc = "returned" /\ fn.parser.lang = "fr" /\ NeufCount(input) <= 1)
        => NeufMarkedLocally(input)

\* "un et neuf": the neighbour "et" is no number word and "neuf" is left as
\* a word
C37_Marked ==
    /\ pc = "returned"
    /\ input = "un et neuf"
    /\ call.digits = "1 et neuf"


-----------------------------------------------------------------------------
(* C38 *)

TensOrdinals ==
    {"twentieth", "thirtieth", "fortieth", "fiftieth", "sixtieth", "seventieth",
     "eightieth", "ninetieth"}

TensDigits(word) ==
    CASE word = "twentieth" -> "20"
      [] word = "thirtieth" -> "30"
      [] word = "fortieth" -> "40"
      [] word = "fiftieth" -> "50"
      [] word = "sixtieth" -> "60"
      [] word = "seventieth" -> "70"
      [] word = "eightieth" -> "80"
      [] word = "ninetieth" -> "90"

\* the tens ordinal word, applied on an empty buffer, is accepted as its tens
\* value and marks the number as ordinal; applied on any buffer it is either
\* refused or leaves its tens value in the last two digits; alone it
\* strict-parses to the tens digits followed by "th"
TensOrdinalAccepted(word) ==
    /\ tokens = <<>> => (call'.st = Ok /\ ds'.buffer = TensDigits(word))
    /\ call'.st = Ok => /\ peek(ds', 2) = TensDigits(word)
                        /\ ds'.marker = MarkerOrdinal("th")
    /\ text2digits(word, "en") = [st |-> Ok, text |-> TensDigits(word) \o "th"]

\* C38: every English tens ordinal (twentieth ... ninetieth) is accepted by
\* the English interpreter as the corresponding tens value, marks the number
\* as ordinal and strict-parses to the tens digits followed by "th".
C38_TensOrdinals ==
    [][(call'.op = "apply" /\ fn.parser.lang = "en" /\ call'.digits \in TensOrdinals)
          => TensOrdinalAccepted(call'.digits)]_vars

\* the same of the tens ordinals other than "sixtieth"
C38_TensOrdinalsButSixtieth ==
    [][(/\ call'.op = "apply"
        /\ fn.parser.lang = "en"
        /\ call'.digits \in TensOrdinals \ {"sixtieth"})
          => TensOrdinalAccepted(call'.digits)]_vars

\* "hundred fiftieth" is the ordinal 150th
C38_Accepted ==
    /\ fn.parser.lang = "en"
    /\ tokens = <<"hundred", "fiftieth">>
    /\ output = <<Ok, Ok>>
    /\ ds.buffer = "150"
    /\ ds.marker = MarkerOrdinal("th")

=============================================================================
